---- MODULE Spec2Model ----
(***************************************************************************)
(* A model of the woped/rag service: the prefix-scoped document lifecycle  *)
(* (ApplicationService.process_pdf, DatabaseService, LangchainClient), the *)
(* similarity retrieval (RAGAdapter.retrieve, LangchainClient.search_docs) *)
(* and the diagram query extraction (QueryExtractionService and the BPMN   *)
(* and PNML extractors).                                                   *)
(*                                                                         *)
(* Python strings whose characters matter (ids, prefixes, queries, terms)  *)
(* are sequences of one-character strings; None is the reserved one-token  *)
(* sequence <<"#None">>.                                                   *)
(***************************************************************************)
EXTENDS Integers, Sequences, FiniteSets, TLC

VARIABLES
    collection,   \* the Chroma collection "rag_collection": a set of entries with unique ids
    last,         \* the last completed DatabaseService / ApplicationService call and its outcome
    idem,         \* progress of the scenario ingest(p, c); delete_by_prefix(p); ingest(p, c)
    writers,      \* per source prefix: the position of its process_pdf call
    env,          \* the environment variables the services read
    search,       \* the last retrieve call: query, the store's answer, the result
    extractors,   \* QueryExtractionService.extractors, in registration order
    extraction,   \* the last extract_query / find_extractor call and its outcome
    prompt_template,  \* RAGAdapter.prompt_template, set at construction
    rag           \* the last augment / RAG pipeline call and its outcome

vars == <<collection, last, idem, writers, env, search, extractors, extraction,
          prompt_template, rag>>

-----------------------------------------------------------------------------
(* Bounds of the model *)

MaxChunks == 2    \* chunks a loaded PDF splits into: 0..MaxChunks
MaxVer == 2       \* versions of one source file that get ingested
MaxDocs == 2      \* documents in one add_docs request
MaxDist == 3      \* distances the store reports: 0..MaxDist
MaxResults == 2   \* RESULTS_COUNT is configured in 1..MaxResults
MaxContext == 2   \* chunks in the context of one augment call

-----------------------------------------------------------------------------
(* Python values *)

None == <<"#None">>

\* bool(x) for a str or None
Truthy(x) == x # None /\ x # <<>>

IsSpace(c) == c = " "

RECURSIVE LStrip(_)
LStrip(s) == IF s # <<>> /\ IsSpace(Head(s)) THEN LStrip(Tail(s)) ELSE s

RECURSIVE RStrip(_)
RStrip(s) ==
    IF s # <<>> /\ IsSpace(s[Len(s)]) THEN RStrip(SubSeq(s, 1, Len(s) - 1)) ELSE s

\* str.strip()
Strip(s) == RStrip(LStrip(s))

\* str.startswith(prefix)
StartsWith(s, prefix) ==
    /\ Len(prefix) <= Len(s)
    /\ SubSeq(s, 1, Len(prefix)) = prefix

\* str(i) for 0 <= i <= 9
DigitChar(i) == <<"0", "1", "2", "3", "4", "5", "6", "7", "8", "9">>[i + 1]

Range(s) == {s[i] : i \in 1..Len(s)}

-----------------------------------------------------------------------------
(* Sources, chunks and documents *)

\* file name stems used as id prefixes; "d" is a proper string prefix of "d2"
SourceD == <<"d">>
SourceD2 == <<"d", "2">>
Prefixes == {SourceD, SourceD2}

\* the path of the PDF file of a source: "/<stem>.pdf"
PdfExt == <<".", "p", "d", "f">>
FileOf(prefix) == <<"/">> \o prefix \o PdfExt

\* PDFLoader.convert_chunks_to_dtos: id = f"{prefix}_{i}"
ChunkId(prefix, i) == prefix \o <<"_">> \o <<DigitChar(i)>>

\* page_content of chunk i of version v of a file: never empty (the splitter
\* drops empty chunks)
ChunkText(v, i) == <<"v", DigitChar(v), "c", DigitChar(i)>>

ChunkDoc(prefix, v, i) ==
    [id |-> ChunkId(prefix, i),
     text |-> ChunkText(v, i),
     metadata |-> [source |-> prefix, ver |-> v]]

\* PDFLoader.convert_chunks_to_dtos over the n chunks of version v
convert_chunks_to_dtos(prefix, v, n) == [i \in 1..n |-> ChunkDoc(prefix, v, i - 1)]

\* documents a client posts through add_docs: two valid ones (one of them with
\* the id of a chunk of source "d"), and ones whose id or text is empty or None
NoMeta == [source |-> <<>>, ver |-> 0]
IdA == <<"a">>
TextX == <<"x">>
RestDocs ==
    { [id |-> IdA, text |-> TextX, metadata |-> NoMeta],
      [id |-> ChunkId(SourceD, 0), text |-> TextX, metadata |-> NoMeta],
      [id |-> <<>>, text |-> TextX, metadata |-> NoMeta],
      [id |-> None, text |-> TextX, metadata |-> NoMeta],
      [id |-> IdA, text |-> <<>>, metadata |-> NoMeta],
      [id |-> ChunkId(SourceD, 0), text |-> None, metadata |-> NoMeta] }

DocLists == UNION {[1..n -> RestDocs] : n \in 0..MaxDocs}

\* prefixes a caller may pass to delete_by_prefix
PrefixInputs == Prefixes \cup {<<>>, None, <<" ">>, <<" ", " ">>}

-----------------------------------------------------------------------------
(* The Chroma collection (external store): entries with unique ids *)

\* collection.get()["ids"]
collection_ids(coll) == {e.id : e \in coll}

\* collection.delete(ids=ids)
Mut_collection_delete(coll, ids) == coll
collection_delete(coll, ids) == {e \in coll : e.id \notin ids}

\* collection.add(documents=[text], metadatas=[metadata], ids=[doc_id]):
\* an id that is already stored is left as it is
collection_add(coll, doc) ==
    IF doc.id \in collection_ids(coll) THEN coll ELSE coll \cup {doc}

-----------------------------------------------------------------------------
(* LangchainClient *)

\* LangchainClient.add_docs: the loop over zip(texts, metadatas, ids), one
\* collection.add per document in input order; the coll after the first k adds
RECURSIVE Mut_AddLoop(_, _, _)
Mut_AddLoop(coll, docs, k) ==
    IF k = 0 \/ Len(docs) <= 1 THEN coll
    ELSE Mut_AddLoop(collection_add(coll, Head(docs)), Tail(docs), k - 1)

RECURSIVE Mut25_AddLoop(_, _, _)
Mut25_AddLoop(coll, docs, k) ==
    IF k = 0 \/ docs = <<>> THEN coll
    ELSE Mut25_AddLoop(collection_add(coll, docs[Len(docs)]),
                       SubSeq(docs, 1, Len(docs) - 1), k - 1)

RECURSIVE AddLoop(_, _, _)
AddLoop(coll, docs, k) ==
    IF k = 0 \/ docs = <<>> THEN coll
    ELSE AddLoop(collection_add(coll, Head(docs)), Tail(docs), k - 1)

\* LangchainClient.add_docs where the first k inserts succeed; k < Len(docs)
\* means insert k+1 raised, and the exception is re-raised with no rollback
LangchainClient_add_docs(coll, docs, k) ==
    [coll |-> AddLoop(coll, docs, k),
     status |-> IF k >= Len(docs) THEN "ok" ELSE "error"]

\* ids_to_delete = [id_ for id_ in all_ids if id_.startswith(prefix)]
Mut_IdsToDelete(all_ids, prefix) == {id \in all_ids : id = prefix}
Mut20_IdsToDelete(all_ids, prefix) == {}
IdsToDelete(all_ids, prefix) == {id \in all_ids : StartsWith(id, prefix)}

\* LangchainClient.delete_by_prefix: get all ids, delete the ones that start
\* with the prefix; storeOk = FALSE: the store raised, nothing is deleted
LangchainClient_delete_by_prefix(coll, prefix, storeOk) ==
    IF ~storeOk THEN [coll |-> coll, status |-> "error"]
    ELSE [coll |-> collection_delete(coll, IdsToDelete(collection_ids(coll), prefix)),
          status |-> "ok"]

-----------------------------------------------------------------------------
(* DatabaseAdapter (the DatabasePort) *)

\* DatabaseAdapter.add_docs: texts, metadatas (or {}), ids of the documents
DatabaseAdapter_add_docs(coll, docs, k) == LangchainClient_add_docs(coll, docs, k)

\* DatabaseAdapter.delete_by_prefix: delegates to the client
DatabaseAdapter_delete_by_prefix(coll, prefix, storeOk) ==
    LangchainClient_delete_by_prefix(coll, prefix, storeOk)

-----------------------------------------------------------------------------
(* DatabaseService *)

\* valid_docs = [doc for doc in documents if doc.id and doc.text]
RECURSIVE Mut_ValidDocs(_)
Mut_ValidDocs(documents) ==
    IF documents = <<>> THEN <<>>
    ELSE IF Truthy(Head(documents).id)
         THEN <<Head(documents)>> \o Mut_ValidDocs(Tail(documents))
         ELSE Mut_ValidDocs(Tail(documents))

RECURSIVE ValidDocs(_)
ValidDocs(documents) ==
    IF documents = <<>> THEN <<>>
    ELSE IF Truthy(Head(documents).id) /\ Truthy(Head(documents).text)
         THEN <<Head(documents)>> \o ValidDocs(Tail(documents))
         ELSE ValidDocs(Tail(documents))

\* DatabaseService.add_docs: the result, with the calls made on the port
DatabaseService_add_docs(coll, documents, k) ==
    LET valid_docs == ValidDocs(documents) IN
    IF valid_docs # <<>>
    THEN LET r == DatabaseAdapter_add_docs(coll, valid_docs, k) IN
         [coll |-> r.coll, status |-> r.status,
          port |-> <<[op |-> "add_docs", arg |-> valid_docs]>>]
    ELSE [coll |-> coll, status |-> "ok", port |-> <<>>]

\* if not prefix or not prefix.strip()
Mut_PrefixIsEmpty(prefix) == ~Truthy(prefix)
PrefixIsEmpty(prefix) == ~Truthy(prefix) \/ ~Truthy(Strip(prefix))

\* DatabaseService.delete_by_prefix
DatabaseService_delete_by_prefix(coll, prefix, storeOk) ==
    IF PrefixIsEmpty(prefix)
    THEN [coll |-> coll, status |-> "ValueError", port |-> <<>>]
    ELSE LET r == DatabaseAdapter_delete_by_prefix(coll, prefix, storeOk) IN
         [coll |-> r.coll, status |-> r.status,
          port |-> <<[op |-> "delete_by_prefix", arg |-> prefix]>>]

-----------------------------------------------------------------------------
(* PDFService and ApplicationService.process_pdf *)

\* PDFService.load_and_convert_pdf: ValueError for an empty file path or
\* prefix, a load or split error (FileNotFoundError is one) re-raised, else
\* the chunks as DocumentDTOs
PDFService_load_and_convert_pdf(file_path, prefix, v, n, loadOk) ==
    IF ~Truthy(file_path) THEN [status |-> "ValueError", documents |-> <<>>]
    ELSE IF ~Truthy(prefix) THEN [status |-> "ValueError", documents |-> <<>>]
    ELSE IF ~loadOk THEN [status |-> "FileNotFoundError", documents |-> <<>>]
    ELSE [status |-> "ok", documents |-> convert_chunks_to_dtos(prefix, v, n)]

Mut_process_pdf(coll, file_path, prefix, v, n, loadOk, storeOk, k) ==
    LET d == DatabaseService_delete_by_prefix(coll, prefix, storeOk) IN
    IF d.status # "ok" THEN d
    ELSE LET l == PDFService_load_and_convert_pdf(file_path, prefix, v, n, loadOk) IN
         IF l.status # "ok" THEN [coll |-> d.coll, status |-> l.status, port |-> d.port]
         ELSE LET a == DatabaseService_add_docs(d.coll, l.documents, k) IN
              [coll |-> a.coll, status |-> a.status, port |-> d.port \o a.port]

\* ApplicationService.process_pdf as one call: load and convert, then
\* delete_by_prefix, then add_docs; the first step that raises ends the call
ApplicationService_process_pdf(coll, file_path, prefix, v, n, loadOk, storeOk, k) ==
    LET l == PDFService_load_and_convert_pdf(file_path, prefix, v, n, loadOk) IN
    IF l.status # "ok" THEN [coll |-> coll, status |-> l.status, port |-> <<>>]
    ELSE LET d == DatabaseService_delete_by_prefix(coll, prefix, storeOk) IN
         IF d.status # "ok" THEN d
         ELSE LET a == DatabaseService_add_docs(d.coll, l.documents, k) IN
              [coll |-> a.coll, status |-> a.status, port |-> d.port \o a.port]

-----------------------------------------------------------------------------
(* Values of the variables a specification does not use *)

NoCall == [op |-> "none", arg |-> <<>>, status |-> "ok", port |-> <<>>,
           added |-> {}, removed |-> {}]
NoIdem == [stage |-> 0, prefix |-> <<>>, v |-> 0, n |-> 0]
IdleWriter == [pc |-> "idle", ver |-> 0, documents |-> <<>>, ids |-> {}]
NoWriters == [p \in Prefixes |-> IdleWriter]
NoEnv == [threshold |-> 0, results_count |-> 0, instruction |-> None,
          preprocessing |-> None]
NoSearch == [op |-> "none"]
NoExtraction == [op |-> "none"]
NoRag == [op |-> "none"]

-----------------------------------------------------------------------------
(* Service calls on the index, one at a time, each run to its end *)

\* the record of a completed call
Completed(op, arg, r) ==
    [op |-> op, arg |-> arg, status |-> r.status, port |-> r.port,
     added |-> r.coll \ collection, removed |-> collection \ r.coll]

\* the scenario "ingest(p, c), then at once delete_by_prefix(p), then at once
\* ingest(p, c) again, each returning normally": the stage reached
IdemAfter(op, arg, status) ==
    IF op = "process_pdf" /\ status = "ok"
    THEN IF idem.stage = 2 /\ arg.prefix = idem.prefix /\ arg.v = idem.v
                            /\ arg.n = idem.n
         THEN [idem EXCEPT !.stage = 3]
         ELSE [stage |-> 1, prefix |-> arg.prefix, v |-> arg.v, n |-> arg.n]
    ELSE IF op = "delete_by_prefix" /\ status = "ok"
            /\ idem.stage \in {1, 3} /\ arg = idem.prefix
         THEN [idem EXCEPT !.stage = 2]
         ELSE NoIdem

StoreUnchanged ==
    UNCHANGED <<writers, env, search, extractors, extraction, prompt_template, rag>>

\* POST add: DatabaseService.add_docs(documents); the first k inserts succeed
AddDocs ==
    \E documents \in DocLists :
      \E k \in 0..Len(documents) :
        LET r == DatabaseService_add_docs(collection, documents, k) IN
        /\ collection' = r.coll
        /\ last' = Completed("add_docs", documents, r)
        /\ idem' = IdemAfter("add_docs", documents, r.status)
        /\ StoreUnchanged

\* DatabaseService.delete_by_prefix(prefix)
DeleteByPrefix ==
    \E prefix \in PrefixInputs, storeOk \in BOOLEAN :
        LET r == DatabaseService_delete_by_prefix(collection, prefix, storeOk) IN
        /\ collection' = r.coll
        /\ last' = Completed("delete_by_prefix", prefix, r)
        /\ idem' = IdemAfter("delete_by_prefix", prefix, r.status)
        /\ StoreUnchanged

\* what the external calls of one process_pdf can do: the load raises, the
\* store raises in delete_by_prefix, or the first k inserts succeed; a call
\* rejected for its arguments makes no external call
PdfOutcomes(file_path, prefix, n) ==
    IF ~Truthy(file_path) \/ ~Truthy(prefix) THEN {<<TRUE, TRUE, 0>>}
    ELSE {<<FALSE, TRUE, 0>>, <<TRUE, FALSE, 0>>} \cup {<<TRUE, TRUE, k>> : k \in 0..n}

\* ApplicationService.process_pdf(file_path, prefix) of a file whose current
\* content (version v) splits into n chunks
ProcessPdf ==
    \E prefix \in Prefixes \cup {<<>>}, v \in 1..MaxVer, n \in 0..MaxChunks :
      \E file_path \in {<<>>, FileOf(prefix)} :
      \E o \in PdfOutcomes(file_path, prefix, n) :
        LET r == ApplicationService_process_pdf(collection, file_path, prefix, v, n,
                                                o[1], o[2], o[3])
            arg == [file_path |-> file_path, prefix |-> prefix, v |-> v, n |-> n] IN
        /\ collection' = r.coll
        /\ last' = Completed("process_pdf", arg, r)
        /\ idem' = IdemAfter("process_pdf", arg, r.status)
        /\ StoreUnchanged

InitStore ==
    /\ collection = {}
    /\ last = NoCall
    /\ idem = NoIdem
    /\ writers = NoWriters
    /\ env = NoEnv
    /\ search = NoSearch
    /\ extractors = <<>>
    /\ extraction = NoExtraction
    /\ prompt_template = None
    /\ rag = NoRag

\* SpecCrud: the document CRUD calls of DatabaseService
NextCrud == AddDocs \/ DeleteByPrefix

SpecCrud == InitStore /\ [][NextCrud]_vars

\* SpecLifecycle: ingestion and prefix-scoped deletion, call after call
NextLifecycle == ProcessPdf \/ DeleteByPrefix

SpecLifecycle == InitStore /\ [][NextLifecycle]_vars

-----------------------------------------------------------------------------
(* SpecIngest: one process_pdf caller per source prefix, re-ingesting its    *)
(* source version after version; the callers interleave at every call to    *)
(* the store (collection.get, collection.delete, each collection.add)       *)

IngestUnchanged ==
    UNCHANGED <<last, idem, env, search, extractors, extraction, prompt_template, rag>>

\* process_pdf step 1: documents = pdf_service.load_and_convert_pdf(file, prefix)
Load(p) ==
    /\ writers[p].pc = "idle"
    /\ writers[p].ver < MaxVer
    /\ \E n \in 0..MaxChunks, loadOk \in BOOLEAN :
         LET l == PDFService_load_and_convert_pdf(FileOf(p), p, writers[p].ver + 1,
                                                 n, loadOk) IN
         writers' = [writers EXCEPT ![p] =
             [pc |-> IF l.status = "ok" THEN "loaded" ELSE "idle",
              ver |-> writers[p].ver + 1,
              documents |-> l.documents,
              ids |-> {}]]
    /\ UNCHANGED collection
    /\ IngestUnchanged

\* process_pdf step 2, first half: DatabaseService.delete_by_prefix validates
\* the prefix, LangchainClient.delete_by_prefix reads collection.get() and
\* filters the ids; a raising store ends process_pdf
DeleteGet(p) ==
    /\ writers[p].pc = "loaded"
    /\ \E storeOk \in BOOLEAN :
         writers' = [writers EXCEPT ![p] =
             IF PrefixIsEmpty(p) \/ ~storeOk
             THEN [@ EXCEPT !.pc = "idle", !.documents = <<>>]
             ELSE [@ EXCEPT !.pc = "got",
                            !.ids = IdsToDelete(collection_ids(collection), p)]]
    /\ UNCHANGED collection
    /\ IngestUnchanged

\* process_pdf step 2, second half: collection.delete(ids=ids_to_delete) when
\* there is an id to delete; then step 3 begins: DatabaseService.add_docs
\* keeps the valid documents and calls the store only when one is left
DeleteDo(p) ==
    /\ writers[p].pc = "got"
    /\ \E storeOk \in BOOLEAN :
         LET valid_docs == ValidDocs(writers[p].documents) IN
         IF writers[p].ids # {} /\ ~storeOk
         THEN /\ writers' = [writers EXCEPT ![p] =
                     [@ EXCEPT !.pc = "idle", !.documents = <<>>, !.ids = {}]]
              /\ UNCHANGED collection
         ELSE /\ collection' = collection_delete(collection, writers[p].ids)
              /\ writers' = [writers EXCEPT ![p] =
                     [@ EXCEPT !.pc = IF valid_docs = <<>> THEN "idle" ELSE "adding",
                               !.documents = valid_docs]]
    /\ IngestUnchanged

\* process_pdf step 3: one turn of the loop of LangchainClient.add_docs: embed
\* and collection.add the next document; a raising embed or add ends the call
AddOne(p) ==
    /\ writers[p].pc = "adding"
    /\ \E storeOk \in BOOLEAN :
         IF ~storeOk
         THEN /\ writers' = [writers EXCEPT ![p] =
                     [@ EXCEPT !.pc = "idle", !.documents = <<>>]]
              /\ UNCHANGED collection
         ELSE /\ collection' = collection_add(collection, Head(writers[p].documents))
              /\ writers' = [writers EXCEPT ![p] =
                     [@ EXCEPT !.pc = IF Len(writers[p].documents) = 1
                                      THEN "idle" ELSE "adding",
                               !.documents = Tail(writers[p].documents)]]
    /\ IngestUnchanged

InitIngest == InitStore

NextIngest == \E p \in Prefixes : Load(p) \/ DeleteGet(p) \/ DeleteDo(p) \/ AddOne(p)

SpecIngest == InitIngest /\ [][NextIngest]_vars

\* the chunks of source p in the index: the entries with an id p_<ordinal>
PrefixGroup(coll, p) == {e \in coll : StartsWith(e.id, p \o <<"_">>)}

\* C1: with one writer per source prefix, delete_by_prefix(p) has completed
\* before add_docs starts: while the new chunks are inserted the group of p
\* holds chunks of the new ingestion only, and in every state the chunks of p
\* in the index belong to one ingestion of p
C1_OneVersionPerPrefix ==
    \A p \in Prefixes :
        /\ \A e1, e2 \in PrefixGroup(collection, p) :
               e1.metadata.ver = e2.metadata.ver
        /\ writers[p].pc = "adding" =>
               \A e \in PrefixGroup(collection, p) : e.metadata.ver = writers[p].ver

\* C1 witness: a re-ingestion of "d" that found chunk d_0 of the previous
\* ingestion and deleted it has inserted its own d_0 and is still inserting
C1_Witness ==
    /\ writers[SourceD].pc = "adding"
    /\ writers[SourceD].ver = 2
    /\ ChunkId(SourceD, 0) \in writers[SourceD].ids
    /\ ChunkDoc(SourceD, 2, 0) \in collection

-----------------------------------------------------------------------------
(* Properties of the service calls *)

\* the entries of the index whose id starts with the prefix
WithPrefix(coll, prefix) == {e \in coll : StartsWith(e.id, prefix)}

\* C2: idempotent re-ingestion: when ingest(p, chunks), delete_by_prefix(p) and
\* ingest(p, chunks) again ran one right after the other and each returned
\* normally, exactly len(chunks) entries of the index have the prefix p, and
\* they are the chunks: none twice, none lost, nothing older left
C2_IdempotentReingestion ==
    idem.stage = 3 =>
        /\ Cardinality(WithPrefix(collection, idem.prefix)) = idem.n
        /\ WithPrefix(collection, idem.prefix)
             = {ChunkDoc(idem.prefix, idem.v, i) : i \in 0..(idem.n - 1)}
        /\ Cardinality({e.id : e \in WithPrefix(collection, idem.prefix)}) = idem.n

\* C2 witness: the scenario completed for a source of MaxChunks chunks
C2_Witness == idem.stage = 3 /\ idem.n = MaxChunks /\ idem.prefix = SourceD

\* a prefix that is None, empty or only whitespace
IsBlank(prefix) ==
    \/ prefix = None
    \/ \A i \in 1..Len(prefix) : prefix[i] = " "

\* C3: delete_by_prefix with an empty, None or whitespace-only prefix raises
\* the validation error before any call reaches the store and leaves the index
\* unchanged
C3_EmptyPrefixRejected ==
    (last.op = "delete_by_prefix" /\ IsBlank(last.arg)) =>
        /\ last.status = "ValueError"
        /\ last.port = <<>>
        /\ last.added = {} /\ last.removed = {}

\* C3 witness: a whitespace-only prefix was rejected while the index held
\* documents
C3_Witness ==
    /\ last.op = "delete_by_prefix" /\ last.arg = <<" ">>
    /\ last.status = "ValueError"
    /\ collection # {}

\* a document with a non-empty id and a non-empty text
IsValidDoc(doc) == doc.id \notin {None, <<>>} /\ doc.text \notin {None, <<>>}

\* C4: add_docs passes to the store exactly the documents with a non-empty id
\* and a non-empty text, in input order; no other document is persisted; with
\* no valid document the store is not called
C4_OnlyValidDocsReachStore ==
    last.op = "add_docs" =>
        LET valid == SelectSeq(last.arg, IsValidDoc) IN
        /\ last.port = IF valid = <<>> THEN <<>>
                       ELSE <<[op |-> "add_docs", arg |-> valid]>>
        /\ \A e \in last.added : IsValidDoc(e) /\ e \in Range(last.arg)
        /\ \A e \in collection : IsValidDoc(e)

\* C4 witness: of two posted documents the first had an empty id and only the
\* second was persisted
C4_Witness ==
    /\ last.op = "add_docs" /\ Len(last.arg) = 2
    /\ last.arg[1].id = <<>>
    /\ last.status = "ok"
    /\ last.added = {last.arg[2]}

-----------------------------------------------------------------------------
(* SpecRetrieve: similarity retrieval *)

\* queries: empty, whitespace only, and a real one
EmptyQuery == <<>>
BlankQuery == <<" ", " ">>
RealQuery == <<"q">>
Queries == {EmptyQuery, BlankQuery, RealQuery}

\* what the index may hold when a search arrives
IndexDocs == {ChunkDoc(SourceD, 1, 0),
              [id |-> IdA, text |-> TextX, metadata |-> NoMeta]}

\* vectorstore.similarity_search_with_score(query, k): the k nearest stored
\* documents with their distances to the query, nearest first. The embedding
\* is a black box, so any distances may come back: every duplicate-free list
\* of min(k, size of the index) stored documents with ascending distances
similarity_search_with_score(coll, k) ==
    LET m == IF Cardinality(coll) < k THEN Cardinality(coll) ELSE k IN
    {r \in [1..m -> [doc : coll, distance : 0..MaxDist]] :
        /\ \A i, j \in 1..m : i # j => r[i].doc # r[j].doc
        /\ \A i \in 1..(m - 1) : r[i].distance <= r[i + 1].distance}

Unknown == <<"u", "n", "k", "n", "o", "w", "n">>

\* DocumentDTO(id=id_, text=text, metadata=metadata) of a found document: the
\* id or "unknown", the page content or ""
FoundDTO(doc) ==
    [id |-> IF Truthy(doc.id) THEN doc.id ELSE Unknown,
     text |-> IF Truthy(doc.text) THEN doc.text ELSE <<>>,
     metadata |-> doc.metadata]

\* LangchainClient.search_docs: the loop over the store's results, appending
\* the pairs whose distance is below the threshold
RECURSIVE Mut5_FilterLoop(_, _)
Mut5_FilterLoop(results, threshold) ==
    IF results = <<>> THEN <<>>
    ELSE IF Head(results).distance <= threshold
         THEN <<[doc |-> FoundDTO(Head(results).doc),
                 distance |-> Head(results).distance]>>
              \o Mut5_FilterLoop(Tail(results), threshold)
         ELSE Mut5_FilterLoop(Tail(results), threshold)

RECURSIVE Mut6_FilterLoop(_, _)
Mut6_FilterLoop(results, threshold) ==
    IF results = <<>> THEN <<>>
    ELSE IF Head(results).distance < threshold
         THEN Mut6_FilterLoop(Tail(results), threshold)
              \o <<[doc |-> FoundDTO(Head(results).doc),
                    distance |-> Head(results).distance]>>
         ELSE Mut6_FilterLoop(Tail(results), threshold)

RECURSIVE FilterLoop(_, _)
FilterLoop(results, threshold) ==
    IF results = <<>> THEN <<>>
    ELSE IF Head(results).distance < threshold
         THEN <<[doc |-> FoundDTO(Head(results).doc),
                 distance |-> Head(results).distance]>>
              \o FilterLoop(Tail(results), threshold)
         ELSE FilterLoop(Tail(results), threshold)

\* what the store may do with one search: raise, or answer
Raised == [raised |-> TRUE, results |-> <<>>]
SearchOutcomes(coll, k) ==
    {Raised} \cup {[raised |-> FALSE, results |-> r] :
                      r \in similarity_search_with_score(coll, k)}

\* LangchainClient.search_docs(query): one similarity search with
\* k = results_count, whatever the query is; an exception of the store is
\* logged and raised again
LangchainClient_search_docs(query, outcome) ==
    IF outcome.raised
    THEN [status |-> "error", result |-> <<>>, storeCalls |-> 1]
    ELSE [status |-> "ok", result |-> FilterLoop(outcome.results, env.threshold),
          storeCalls |-> 1]

\* RAGAdapter.retrieve(query): returns langchain_client.search_docs(query)
RAGAdapter_retrieve(query, outcome) ==
    LangchainClient_search_docs(query, outcome)

\* a retrieve call on the RAG port
Retrieve ==
    \E query \in Queries :
      \E outcome \in SearchOutcomes(collection, env.results_count) :
        LET r == RAGAdapter_retrieve(query, outcome) IN
        /\ search' = [op |-> "retrieve", query |-> query,
                      results |-> outcome.results,
                      status |-> r.status, result |-> r.result,
                      storeCalls |-> r.storeCalls]
        /\ UNCHANGED <<collection, last, idem, writers, env, extractors, extraction,
                       prompt_template, rag>>

\* LangchainClient.__init__ reads THRESHOLD and RESULTS_COUNT once
InitRetrieve ==
    /\ collection \in SUBSET IndexDocs
    /\ env \in [threshold : 1..MaxDist, results_count : 1..MaxResults,
                 instruction : {None}, preprocessing : {None}]
    /\ last = NoCall
    /\ idem = NoIdem
    /\ writers = NoWriters
    /\ search = NoSearch
    /\ extractors = <<>>
    /\ extraction = NoExtraction
    /\ prompt_template = None
    /\ rag = NoRag

NextRetrieve == Retrieve

SpecRetrieve == InitRetrieve /\ [][NextRetrieve]_vars

\* the (id, distance) pairs of a list of (document, distance) pairs
IdDistances(pairs) == [i \in 1..Len(pairs) |-> <<pairs[i].doc.id, pairs[i].distance>>]

BelowThreshold(pair) == pair.distance < env.threshold

\* C5: a successful search returns exactly the store's candidates (at most
\* RESULTS_COUNT of them) whose distance is strictly below the threshold, in
\* the store's order, each with its distance unchanged
C5_ExactlyBelowThreshold ==
    (search.op = "retrieve" /\ search.status = "ok") =>
        /\ IdDistances(search.result)
             = IdDistances(SelectSeq(search.results, BelowThreshold))
        /\ \A i \in 1..Len(search.result) : search.result[i].distance < env.threshold
        /\ Len(search.result) <= env.results_count

\* C5 witness: a candidate at distance exactly T was left out while a nearer
\* one was returned
C5_Witness ==
    /\ search.op = "retrieve" /\ search.status = "ok"
    /\ Len(search.results) = 2 /\ Len(search.result) = 1
    /\ search.results[2].distance = env.threshold

C7_BlankQueryShortCircuits ==
    (search.op = "retrieve" /\ Strip(search.query) = <<>>) =>
        /\ search.storeCalls = 0
        /\ search.status = "ok" /\ search.result = <<>>

-----------------------------------------------------------------------------
(* SpecQuery: query extraction from process diagrams *)

\* A diagram is a string of XML. The code looks at it through substring tests,
\* regular expressions over start tags and an XML parse, so it is modelled as
\* the sequence of its lexemes: tag is the element's name, name its name
\* attribute and text its character data (None where it has none).
Lexeme(tag, name, text) == [tag |-> tag, name |-> name, text |-> text]

XmlDecl == Lexeme("?xml", None, None)
PnmlRoot == Lexeme("pnml", None, None)
Definitions == Lexeme("definitions", None, None)
BpmnDefinitions == Lexeme("bpmn:definitions", None, None)

LoanLabel ==
    <<"l", "o", "a", "n", " ", "a", "p", "p", "l", "i">>
    \o <<"c", "a", "t", "i", "o", "n", " ", "r", "e", "c">>
    \o <<"e", "i", "v", "e", "d">>
NoIdLabel == <<"n", "o", "I", "D">>
NumLabel == <<"1", "2", "3">>
BankName == <<"B", "a", "n", "k">>
ClerkName == <<"C", "l", "e", "r", "k", " ">>
ApproveName == <<"A", "p", "p", "r", "o", "v", "e", " ", "L", "o", "a", "n">>
StartName == <<"S", "t", "a", "r", "t">>
CustomerName == <<"C", "u", "s", "t", "o", "m", "e", "r">>
PlainText == <<"p", "l", "a", "i", "n", " ", "t", "e", "x", "t">>

\* <name><text>label</text></name> of a PNML place or transition
TextElem(label) == Lexeme("text", None, label)

Participant == Lexeme("bpmn:participant", BankName, None)
Lane == Lexeme("bpmn:lane", ClerkName, None)
Task == Lexeme("bpmn:task", ApproveName, None)
StartEvent == Lexeme("bpmn:startEvent", StartName, None)
\* <participant name="Customer"/>, without the bpmn: prefix
PlainParticipant == Lexeme("participant", CustomerName, None)

\* character data outside any element
Plain == Lexeme("#text", None, PlainText)

\* what a diagram opens with: nothing, the XML declaration, a root element
Headers == {<<>>, <<XmlDecl>>, <<PnmlRoot>>,
            <<XmlDecl, PnmlRoot>>, <<XmlDecl, Definitions>>,
            <<XmlDecl, BpmnDefinitions>>, <<XmlDecl, PnmlRoot, Definitions>>}

\* and what follows: nothing, plain text, PNML labels, BPMN elements
Bodies == {<<>>, <<Plain>>,
           <<TextElem(LoanLabel)>>,
           <<TextElem(LoanLabel), TextElem(NoIdLabel), TextElem(NumLabel)>>,
           <<Task>>, <<Task, StartEvent>>,
           <<Participant, Lane, Task>>, <<Lane, Task, Participant, Task>>,
           <<StartEvent, PlainParticipant, Lane, Task>>,
           <<Participant, PlainParticipant, Task>>}

\* None where a diagram is expected
NoDiagram == <<Lexeme("#None", None, None)>>

Diagrams == {h \o b : h \in Headers, b \in Bodies} \cup {NoDiagram}

\* "<...>" in diagram, for the markers the extractors look for
HasTag(diagram, tag) == \E i \in 1..Len(diagram) : diagram[i].tag = tag

BpmnTags == {"bpmn:definitions", "bpmn:participant", "bpmn:lane", "bpmn:task",
             "bpmn:startEvent"}

\* "<bpmn:" in diagram
HasBpmnPrefix(diagram) == \E i \in 1..Len(diagram) : diagram[i].tag \in BpmnTags

\* str.lower() and the character classes of the regular expressions
Uppers == <<"A", "B", "C", "D", "E", "F", "G", "H", "I", "J", "K", "L", "M">>
            \o <<"N", "O", "P", "Q", "R", "S", "T", "U", "V", "W", "X", "Y", "Z">>
Lowers == <<"a", "b", "c", "d", "e", "f", "g", "h", "i", "j", "k", "l", "m">>
            \o <<"n", "o", "p", "q", "r", "s", "t", "u", "v", "w", "x", "y", "z">>
Digits == {"0", "1", "2", "3", "4", "5", "6", "7", "8", "9"}

LowerChar(c) ==
    IF \E i \in 1..Len(Uppers) : Uppers[i] = c
    THEN Lowers[CHOOSE i \in 1..Len(Uppers) : Uppers[i] = c]
    ELSE c

Lower(s) == [i \in 1..Len(s) |-> LowerChar(s[i])]

\* str.isdigit(), and a match of ^\d+$
IsDigit(s) == s # <<>> /\ \A i \in 1..Len(s) : s[i] \in Digits

\* sub in s
Contains(s, sub) ==
    \E i \in 0..(Len(s) - Len(sub)) : SubSeq(s, i + 1, i + Len(sub)) = sub

\* " ".join(words)
RECURSIVE Join(_)
Join(words) ==
    IF words = <<>> THEN <<>>
    ELSE IF Len(words) = 1 THEN words[1]
    ELSE words[1] \o <<" ">> \o Join(Tail(words))

\* the names of the lexemes with one of the given tags, in document order
RECURSIVE FindAll(_, _)
FindAll(diagram, tags) ==
    IF diagram = <<>> THEN <<>>
    ELSE IF Head(diagram).tag \in tags /\ Head(diagram).name # None
         THEN <<Head(diagram).name>> \o FindAll(Tail(diagram), tags)
         ELSE FindAll(Tail(diagram), tags)

\* BpmnQueryExtractor.is_valid_name
is_valid_name(name) == name # <<>> /\ Len(name) > 1 /\ ~IsDigit(name)

\* name.strip().lower() of every match, the valid ones kept
RECURSIVE ValidNames(_)
ValidNames(matches) ==
    IF matches = <<>> THEN <<>>
    ELSE LET name == Lower(Strip(Head(matches))) IN
         IF is_valid_name(name) THEN <<name>> \o ValidNames(Tail(matches))
         ELSE ValidNames(Tail(matches))

\* the same, a name already in seen dropped
RECURSIVE ValidNamesOnce(_, _)
ValidNamesOnce(matches, seen) ==
    IF matches = <<>> THEN seen
    ELSE LET name == Lower(Strip(Head(matches))) IN
         IF is_valid_name(name) /\ name \notin Range(seen)
         THEN ValidNamesOnce(Tail(matches), Append(seen, name))
         ELSE ValidNamesOnce(Tail(matches), seen)

\* BpmnQueryExtractor.extract_participants: the first pattern with matches;
\* the third pattern (a name attribute followed by "participant" inside the
\* same tag) matches none of the lexemes above
extract_participants(diagram) ==
    LET p1 == FindAll(diagram, {"bpmn:participant"})
        p2 == FindAll(diagram, {"participant"})
    IN ValidNames(IF p1 # <<>> THEN p1 ELSE p2)

\* BpmnQueryExtractor.extract_lanes
extract_lanes(diagram) ==
    LET p1 == FindAll(diagram, {"bpmn:lane"})
        p2 == FindAll(diagram, {"lane"})
    IN ValidNames(IF p1 # <<>> THEN p1 ELSE p2)

\* BpmnQueryExtractor.extract_activities: every pattern in turn, a name kept once
extract_activities(diagram) ==
    ValidNamesOnce(FindAll(diagram, {"bpmn:task"})
                     \o FindAll(diagram, {"bpmn:startEvent"})
                     \o FindAll(diagram, {"task"})
                     \o FindAll(diagram, {"startEvent"}), <<>>)

\* search_keywords.insert(0, x) for every x of names in turn
RECURSIVE InsertFront(_, _)
InsertFront(keywords, names) ==
    IF names = <<>> THEN keywords
    ELSE InsertFront(<<Head(names)>> \o keywords, Tail(names))

\* BpmnQueryExtractor.extract_semantic_terms
Mut_extract_semantic_terms(diagram) ==
    extract_activities(diagram)
      \o InsertFront(InsertFront(<<>>, extract_participants(diagram)),
                     extract_lanes(diagram))

extract_semantic_terms(diagram) ==
    InsertFront(InsertFront(<<>>, extract_participants(diagram)),
                extract_lanes(diagram))
      \o extract_activities(diagram)

\* PnmlQueryExtractor.extract_terms: the stripped text of every text element
\* under a name, then the stripped name attribute of every element that has one
RECURSIVE TextElements(_)
TextElements(diagram) ==
    IF diagram = <<>> THEN <<>>
    ELSE IF Head(diagram).tag = "text" /\ Truthy(Head(diagram).text)
         THEN <<Strip(Head(diagram).text)>> \o TextElements(Tail(diagram))
         ELSE TextElements(Tail(diagram))

RECURSIVE NameAttributes(_)
NameAttributes(diagram) ==
    IF diagram = <<>> THEN <<>>
    ELSE IF Truthy(Head(diagram).name)
         THEN <<Strip(Head(diagram).name)>> \o NameAttributes(Tail(diagram))
         ELSE NameAttributes(Tail(diagram))

extract_terms(diagram) == TextElements(diagram) \o NameAttributes(diagram)

LowerLetters == Range(Lowers)

\* ^[a-z]\d+$
IsLetterDigits(s) == Len(s) >= 2 /\ s[1] \in LowerLetters /\ IsDigit(Tail(s))

OpInfix == <<"_", "o", "p", "_">>

\* ^[a-z]\d+_op_\d+$
IsOpPattern(s) ==
    \E i \in 1..Len(s) :
        /\ IsLetterDigits(SubSeq(s, 1, i))
        /\ i + 5 <= Len(s)
        /\ SubSeq(s, i + 1, i + 4) = OpInfix
        /\ IsDigit(SubSeq(s, i + 5, Len(s)))

\* re.sub(r'[<>-]', ' ', s)
Blanked(s) == [i \in 1..Len(s) |-> IF s[i] \in {"<", ">", "-"} THEN " " ELSE s[i]]

\* re.sub(r'\s+', ' ', s)
RECURSIVE Collapse(_)
Collapse(s) ==
    IF s = <<>> THEN <<>>
    ELSE IF IsSpace(Head(s))
         THEN <<" ">> \o Collapse(LStrip(s))
         ELSE <<Head(s)>> \o Collapse(Tail(s))

NoId == <<"n", "o", "i", "d">>

\* the test PnmlQueryExtractor.filter_technical_terms applies to one cleaned text
IsBusinessTerm(cleaned) ==
    /\ cleaned # <<>> /\ Len(cleaned) > 1
    /\ ~IsDigit(cleaned)
    /\ cleaned[1] # "<"
    /\ cleaned # NoId
    /\ ~IsLetterDigits(cleaned)
    /\ ~IsOpPattern(cleaned)

\* PnmlQueryExtractor.filter_technical_terms
RECURSIVE filter_technical_terms(_)
filter_technical_terms(text_matches) ==
    IF text_matches = <<>> THEN <<>>
    ELSE LET cleaned == Lower(Strip(Head(text_matches))) IN
         IF IsBusinessTerm(cleaned)
         THEN <<Strip(Collapse(Blanked(cleaned)))>>
              \o filter_technical_terms(Tail(text_matches))
         ELSE filter_technical_terms(Tail(text_matches))

pnml_structural_terms ==
    <<<<"p", "l", "a", "c", "e">>,
      <<"t", "r", "a", "n", "s", "i", "t", "i", "o", "n">>,
      <<"a", "r", "c">>, <<"t", "o", "k", "e", "n">>,
      <<"s", "t", "a", "r", "t">>, <<"e", "n", "d">>,
      <<"s", "p", "l", "i", "t">>, <<"j", "o", "i", "n">>,
      <<"a", "n", "d">>, <<"x", "o", "r">>, <<"h", "t", "t", "p">>,
      <<"w", "w", "w">>, <<"o", "r", "g">>,
      <<"b", "e", "r", "l", "i", "n">>, <<"h", "u">>, <<"o", "p">>,
      <<"w", "o", "p", "e", "d">>,
      <<"d", "e", "s", "i", "g", "n", "e", "r">>,
      <<"v", "e", "r", "s", "i", "o", "n">>>>

\* PnmlQueryExtractor.filter_structural_terms: a keyword is dropped when any
\* structural term occurs in it
RECURSIVE filter_structural_terms(_)
filter_structural_terms(keywords) ==
    IF keywords = <<>> THEN <<>>
    ELSE IF ~\E i \in 1..Len(pnml_structural_terms) :
                Contains(Lower(Head(keywords)), pnml_structural_terms[i])
         THEN <<Head(keywords)>> \o filter_structural_terms(Tail(keywords))
         ELSE filter_structural_terms(Tail(keywords))

structural_terms ==
    <<<<"a", "n", "d">>, <<"x", "o", "r">>, <<"s", "p", "l", "i", "t">>,
      <<"j", "o", "i", "n">>, <<"s", "t", "a", "r", "t">>,
      <<"e", "n", "d">>, <<"g", "a", "t", "e", "w", "a", "y">>,
      <<"t", "r", "a", "n", "s", "i", "t", "i", "o", "n">>,
      <<"p", "l", "a", "c", "e">>, <<"f", "o", "r", "k">>,
      <<"m", "e", "r", "g", "e">>>>

\* QueryExtractionService.optimize_keywords: a keyword equal to a structural
\* term goes to excluded, every other one is kept
RECURSIVE Mut27_optimize_keywords(_)
Mut27_optimize_keywords(keywords) ==
    IF keywords = <<>> THEN [optimized |-> <<>>, excluded |-> <<>>]
    ELSE LET rest == Mut27_optimize_keywords(Tail(keywords)) IN
         IF \E t \in Range(structural_terms) : Contains(Head(keywords), t)
         THEN [optimized |-> rest.optimized,
               excluded |-> <<Head(keywords)>> \o rest.excluded]
         ELSE [optimized |-> <<Head(keywords), Head(keywords)>> \o rest.optimized,
               excluded |-> rest.excluded]

RECURSIVE optimize_keywords(_)
optimize_keywords(keywords) ==
    IF keywords = <<>> THEN [optimized |-> <<>>, excluded |-> <<>>]
    ELSE LET rest == optimize_keywords(Tail(keywords)) IN
         IF Head(keywords) \in Range(structural_terms)
         THEN [optimized |-> rest.optimized,
               excluded |-> <<Head(keywords)>> \o rest.excluded]
         ELSE [optimized |-> <<Head(keywords)>> \o rest.optimized,
               excluded |-> rest.excluded]

\* the extractor classes, named by get_diagram_type()
ExtractorClasses == {"BPMN", "PNML"}

\* the methods each extractor class defines
Methods(cls) ==
    IF cls = "BPMN"
    THEN {"can_process", "get_diagram_type", "extract_semantic_terms",
          "extract_participants", "extract_lanes", "extract_activities",
          "is_valid_name"}
    ELSE {"can_process", "get_diagram_type", "extract_terms",
          "filter_technical_terms", "filter_structural_terms"}

\* BpmnQueryExtractor.can_process: the substring tests, on None a TypeError
BpmnQueryExtractor_can_process(diagram) ==
    IF diagram = NoDiagram THEN "TypeError"
    ELSE IF HasTag(diagram, "?xml")
            /\ (HasBpmnPrefix(diagram) \/ HasTag(diagram, "definitions"))
         THEN "True" ELSE "False"

\* PnmlQueryExtractor.can_process: False on None and on the empty string
PnmlQueryExtractor_can_process(diagram) ==
    IF diagram = NoDiagram \/ diagram = <<>> THEN "False"
    ELSE IF HasTag(diagram, "?xml") /\ HasTag(diagram, "pnml")
         THEN "True" ELSE "False"

can_process(cls, diagram) ==
    IF cls = "BPMN" THEN BpmnQueryExtractor_can_process(diagram)
    ELSE PnmlQueryExtractor_can_process(diagram)

\* the extractor lists a service is built with; ServiceConfig registers
\* <<"BPMN", "PNML">>
Registrations == {<<>>, <<"BPMN">>, <<"PNML">>, <<"BPMN", "PNML">>,
                  <<"PNML", "BPMN">>}

\* QueryExtractionService.find_extractor: the scan from position i on; found
\* is the position of the extractor returned, 0 for None
RECURSIVE Mut_ScanFrom(_, _, _)
Mut_ScanFrom(exts, diagram, i) ==
    IF i > Len(exts) THEN [status |-> "ok", found |-> 0]
    ELSE LET rest == Mut_ScanFrom(exts, diagram, i + 1) IN
         IF rest.status = "ok" /\ rest.found # 0 THEN rest
         ELSE IF can_process(exts[i], diagram) = "True"
              THEN [status |-> "ok", found |-> i]
              ELSE rest

RECURSIVE ScanFrom(_, _, _)
ScanFrom(exts, diagram, i) ==
    IF i > Len(exts) THEN [status |-> "ok", found |-> 0]
    ELSE LET c == can_process(exts[i], diagram) IN
         IF c = "TypeError" THEN [status |-> "TypeError", found |-> 0]
         ELSE IF c = "True" THEN [status |-> "ok", found |-> i]
         ELSE ScanFrom(exts, diagram, i + 1)

find_extractor(exts, diagram) == ScanFrom(exts, diagram, 1)

\* QueryExtractionService.extract_query: called lists the term-extraction
\* calls made on extractors, by position
Mut_extract_query(exts, diagram) ==
    LET f == find_extractor(exts, diagram) IN
    IF f.status # "ok"
    THEN [status |-> f.status, found |-> 0, result |-> None, called |-> <<>>]
    ELSE IF f.found = 0
    THEN [status |-> "ok", found |-> 0, result |-> <<>>, called |-> <<>>]
    ELSE IF "extract_semantic_terms" \notin Methods(exts[f.found])
    THEN [status |-> "AttributeError", found |-> f.found, result |-> None,
          called |-> <<>>]
    ELSE [status |-> "ok", found |-> f.found,
          result |-> Join(optimize_keywords(extract_semantic_terms(diagram)).optimized),
          called |-> <<[extractor |-> f.found, method |-> "extract_semantic_terms"]>>]

extract_query(exts, diagram) ==
    LET f == find_extractor(exts, diagram) IN
    IF f.status # "ok"
    THEN [status |-> f.status, found |-> 0, result |-> None, called |-> <<>>]
    ELSE IF f.found = 0
    THEN [status |-> "ok", found |-> 0, result |-> diagram, called |-> <<>>]
    ELSE IF "extract_semantic_terms" \notin Methods(exts[f.found])
    THEN [status |-> "AttributeError", found |-> f.found, result |-> None,
          called |-> <<>>]
    ELSE [status |-> "ok", found |-> f.found,
          result |-> Join(optimize_keywords(extract_semantic_terms(diagram)).optimized),
          called |-> <<[extractor |-> f.found, method |-> "extract_semantic_terms"]>>]

QueryUnchanged ==
    UNCHANGED <<collection, last, idem, writers, env, search, extractors,
                prompt_template, rag>>

\* a find_extractor call on the service
FindExtractor ==
    \E diagram \in Diagrams :
        LET f == find_extractor(extractors, diagram) IN
        /\ extraction' = [op |-> "find_extractor", diagram |-> diagram,
                          status |-> f.status, found |-> f.found,
                          result |-> None, called |-> <<>>]
        /\ QueryUnchanged

\* an extract_query call on the service
ExtractQuery ==
    \E diagram \in Diagrams :
        LET r == extract_query(extractors, diagram) IN
        /\ extraction' = [op |-> "extract_query", diagram |-> diagram,
                          status |-> r.status, found |-> r.found,
                          result |-> r.result, called |-> r.called]
        /\ QueryUnchanged

\* QueryExtractionService.__init__ keeps the list it is given
InitQuery ==
    /\ extractors \in Registrations
    /\ extraction = NoExtraction
    /\ prompt_template = None
    /\ rag = NoRag
    /\ collection = {}
    /\ last = NoCall
    /\ idem = NoIdem
    /\ writers = NoWriters
    /\ env = NoEnv
    /\ search = NoSearch

NextQuery == FindExtractor \/ ExtractQuery

SpecQuery == InitQuery /\ [][NextQuery]_vars

\* the positions of the registered extractors that accept the diagram
Accepting(diagram) ==
    {i \in 1..Len(extractors) : can_process(extractors[i], diagram) = "True"}

\* every registered extractor answered False
NoneAccepts(diagram) ==
    \A i \in 1..Len(extractors) : can_process(extractors[i], diagram) = "False"

\* C8: when no registered extractor accepts the diagram, extract_query returns
\* the diagram unchanged and calls no extractor's term extraction
C8_IdentityFallback ==
    (extraction.op = "extract_query" /\ NoneAccepts(extraction.diagram)) =>
        /\ extraction.status = "ok"
        /\ extraction.result = extraction.diagram
        /\ extraction.called = <<>>

\* C8 witness: a non-empty diagram went through a service with extractors
\* registered, none of which accepts it, and came back as the query
C8_Witness ==
    /\ extraction.op = "extract_query"
    /\ Len(extractors) = 2
    /\ extraction.diagram \notin {NoDiagram, <<>>}
    /\ NoneAccepts(extraction.diagram)
    /\ extraction.result = extraction.diagram

\* C9: find_extractor returns the earliest registered extractor that accepts
\* the diagram, None when there is none, and extract_query extracts terms with
\* that extractor only
C9_FirstMatchWins ==
    (extraction.op # "none" /\ extraction.status # "TypeError") =>
        LET acc == Accepting(extraction.diagram) IN
        /\ acc = {} => extraction.found = 0
        /\ acc # {} => /\ extraction.found \in acc
                       /\ \A i \in acc : extraction.found <= i
        /\ \A k \in 1..Len(extraction.called) :
               extraction.called[k].extractor = extraction.found

\* C9 witness: both registered extractors accept the diagram and the terms
\* were extracted with the one registered first
C9_Witness ==
    /\ extraction.op = "extract_query"
    /\ Accepting(extraction.diagram) = {1, 2}
    /\ extraction.found = 1
    /\ Len(extraction.called) = 1

\* C10 as claimed: for a diagram the PNML extractor is selected for,
\* extract_query returns, without raising, the single-space join of the labels
\* left by extract_terms, filter_technical_terms and filter_structural_terms
C10_PnmlQueryIsFilteredJoin ==
    (/\ extraction.op = "extract_query"
     /\ extraction.found # 0
     /\ extractors[extraction.found] = "PNML") =>
        /\ extraction.status = "ok"
        /\ extraction.result =
             Join(filter_structural_terms(filter_technical_terms(
                      extract_terms(extraction.diagram))))

\* the lower-cased, trimmed name attributes of the elements with these tags
NamesOf(diagram, tags) ==
    {Lower(Strip(diagram[i].name)) :
        i \in {j \in 1..Len(diagram) :
                 diagram[j].tag \in tags /\ diagram[j].name # None}}

\* those of them BpmnQueryExtractor.is_valid_name accepts
ValidOf(diagram, tags) ==
    {n \in NamesOf(diagram, tags) : n # <<>> /\ Len(n) > 1 /\ ~IsDigit(n)}

\* the valid names of the elements the first pattern with any match finds
FirstPatternOf(diagram, tag1, tag2) ==
    IF NamesOf(diagram, {tag1}) # {} THEN ValidOf(diagram, {tag1})
    ELSE ValidOf(diagram, {tag2})

ActivityTags == {"bpmn:task", "bpmn:startEvent", "task", "startEvent"}

\* sub occurs in s at position i
OccursAt(s, sub, i) ==
    i >= 1 /\ i + Len(sub) - 1 <= Len(s) /\ SubSeq(s, i, i + Len(sub) - 1) = sub

\* first occurs in s, and ends before any occurrence of second begins
OccursBefore(s, first, second) ==
    \E i \in 1..Len(s) :
        /\ OccursAt(s, first, i)
        /\ \A j \in 1..Len(s) : OccursAt(s, second, j) => i + Len(first) <= j

\* an extract_query call that selected the BPMN extractor and returned
BpmnExtracted ==
    /\ extraction.op = "extract_query" /\ extraction.status = "ok"
    /\ extraction.found # 0
    /\ extractors[extraction.found] = "BPMN"

-----------------------------------------------------------------------------
(* SpecAugment: prompt augmentation *)

NL == <<"\n">>
NL2 == <<"\n", "\n">>

\* str(x) as an f-string and str.format render a value
Str(x) == IF x = None THEN <<"N", "o", "n", "e">> ELSE x

DocumentLabel == <<"[", "D", "o", "c", "u", "m", "e", "n", "t", " ">>
ContextLabel == <<"C", "o", "n", "t", "e", "x", "t", ":">>
KontextLabel == <<"K", "o", "n", "t", "e", "x", "t", ":">>
AntwortLabel == <<"A", "n", "t", "w", "o", "r", "t", ":">>
SystemPrefix == <<"S", "y", "s", "t", "e", "m", ":", " ">>

\* the arguments of augment, state["prompt"] and state.get("context"), and the
\* environment variable ADDITIONAL_LLM_INSTRUCTION (None when unset)
Prompts == {<<>>, <<"p">>, <<"p", "q">>}
Instructions == {None, <<"i">>}
TextY == <<"y">>
ContextDocs == {[id |-> IdA, text |-> TextX, metadata |-> NoMeta],
                [id |-> IdA, text |-> TextY, metadata |-> NoMeta]}
Contexts == UNION {[1..n -> ContextDocs] : n \in 0..MaxContext}

\* the blocks of enumerate(state["context"], 1), from number i on
RECURSIVE Mut_ContextBlocks(_, _)
Mut_ContextBlocks(context, i) ==
    IF context = <<>> THEN <<>>
    ELSE <<DocumentLabel \o <<DigitChar(i - 1)>> \o <<"]">> \o NL \o Head(context).text>>
         \o Mut_ContextBlocks(Tail(context), i + 1)

RECURSIVE ContextBlocks(_, _)
ContextBlocks(context, i) ==
    IF context = <<>> THEN <<>>
    ELSE <<DocumentLabel \o <<DigitChar(i)>> \o <<"]">> \o NL \o Head(context).text>>
         \o ContextBlocks(Tail(context), i + 1)

\* "\n\n".join(context_blocks)
RECURSIVE JoinBlocks(_)
JoinBlocks(blocks) ==
    IF blocks = <<>> THEN <<>>
    ELSE IF Len(blocks) = 1 THEN blocks[1]
    ELSE blocks[1] \o NL2 \o JoinBlocks(Tail(blocks))

\* context_text: empty unless state.get("context") is a non-empty list
ContextText(context) ==
    IF context # <<>> THEN JoinBlocks(ContextBlocks(context, 1)) ELSE <<>>

\* prompt_template.format(...) of the template ServiceConfig configures: one
\* system message, rendered with its role in front
TemplateFormat(prompt, instruction, context_text) ==
    SystemPrefix \o prompt \o NL2 \o Str(instruction) \o NL2
      \o KontextLabel \o NL \o context_text \o NL2 \o AntwortLabel

\* the plain format used without a template and when the template fails
Mut_PlainFormat(prompt, instruction, context_text) ==
    prompt \o NL2 \o Str(instruction) \o NL2 \o context_text

PlainFormat(prompt, instruction, context_text) ==
    prompt \o NL2 \o Str(instruction) \o NL2 \o ContextLabel \o NL \o context_text

\* RAGAdapter.augment(state); hasContext = FALSE: the state has no "context"
\* key, formatOk = FALSE: prompt_template.format raised
RAGAdapter_augment(template, prompt, hasContext, context, instruction, formatOk) ==
    LET context_text == IF hasContext THEN ContextText(context) ELSE <<>> IN
    [status |-> "ok",
     context_text |-> context_text,
     raised |-> template # None /\ ~formatOk,
     result |-> IF template # None /\ formatOk
                THEN TemplateFormat(prompt, instruction, context_text)
                ELSE PlainFormat(prompt, instruction, context_text)]

\* an augment call on the RAG port
Augment ==
    \E prompt \in Prompts, context \in Contexts,
       hasContext \in BOOLEAN, formatOk \in BOOLEAN :
        /\ hasContext \/ context = <<>>
        /\ formatOk \/ prompt_template # None
        /\ LET r == RAGAdapter_augment(prompt_template, prompt, hasContext, context,
                                       env.instruction, formatOk) IN
           rag' = [op |-> "augment", prompt |-> prompt, context |-> context,
                   hasContext |-> hasContext, instruction |-> env.instruction,
                   status |-> r.status, context_text |-> r.context_text,
                   raised |-> r.raised, result |-> r.result]
        /\ UNCHANGED <<collection, last, idem, writers, env, search, extractors,
                       extraction, prompt_template>>

ConfiguredTemplate == <<"t">>

\* RAGAdapter.__init__(prompt_template=None)
InitAugment ==
    /\ prompt_template \in {None, ConfiguredTemplate}
    /\ env \in [threshold : {0}, results_count : {0}, instruction : Instructions,
                 preprocessing : {None}]
    /\ rag = NoRag
    /\ collection = {}
    /\ last = NoCall
    /\ idem = NoIdem
    /\ writers = NoWriters
    /\ search = NoSearch
    /\ extractors = <<>>
    /\ extraction = NoExtraction

NextAugment == Augment

SpecAugment == InitAugment /\ [][NextAugment]_vars

\* C12 as claimed: augment with an empty or missing context returns the prompt
\* unchanged
C12_EmptyContextReturnsPrompt ==
    (rag.op = "augment" /\ rag.context = <<>>) =>
        rag.status = "ok" /\ rag.result = rag.prompt

\* C13 as claimed: augment with an empty prompt fails with a validation error
\* and returns no enriched prompt
C13_EmptyPromptRejected ==
    (rag.op = "augment" /\ rag.prompt = <<>>) => rag.status = "ValueError"

\* the blocks 1..n of a context, joined by a blank line
RECURSIVE ExpectedContext(_, _)
ExpectedContext(context, n) ==
    LET block == DocumentLabel \o <<DigitChar(n)>> \o <<"]">> \o NL \o context[n].text IN
    IF n = 0 THEN <<>>
    ELSE IF n = 1 THEN block
    ELSE ExpectedContext(context, n - 1) \o NL2 \o block

\* C14: a non-empty context is rendered as one block per chunk, block i being
\* "[Document i]", a newline and the text of the i-th chunk, the blocks in the
\* order of the context and joined by a blank line
C14_ContextBlocks ==
    (rag.op = "augment" /\ rag.context # <<>>) =>
        /\ rag.context_text = ExpectedContext(rag.context, Len(rag.context))
        /\ Contains(rag.result, rag.context_text)

\* C14 witness: two chunks with different texts were rendered
C14_Witness ==
    /\ rag.op = "augment"
    /\ Len(rag.context) = 2 /\ rag.context[1].text # rag.context[2].text
    /\ Contains(rag.result, rag.context_text)

\* C15: when filling the template raises, augment returns the prompt, a blank
\* line, the instruction, a blank line, "Context:", a newline and the context
\* block, and does not raise
C15_TemplateFailureFallback ==
    (rag.op = "augment" /\ rag.raised) =>
        /\ rag.status = "ok"
        /\ rag.result = rag.prompt \o NL2 \o Str(rag.instruction) \o NL2
                          \o ContextLabel \o NL \o rag.context_text

\* C15 witness: the template raised on a call with a prompt, an instruction
\* and a chunk
C15_Witness ==
    /\ rag.op = "augment" /\ rag.raised
    /\ rag.prompt # <<>> /\ rag.instruction # None /\ rag.context # <<>>
    /\ rag.status = "ok"

-----------------------------------------------------------------------------
(* SpecPipeline: the RAG pipelines, retrieval followed by augmentation *)

TrueText == <<"t", "r", "u", "e">>

\* ENABLE_DIAGRAM_PREPROCESSING: unset, "true", "True", "false"
PreprocessingValues == {None, TrueText, <<"T", "r", "u", "e">>, <<"f", "a", "l", "s", "e">>}

\* the diagrams of a RAG request: plain text, a BPMN and a PNML diagram
PipelineDiagrams == {<<Plain>>,
                     <<XmlDecl, Definitions, Participant, Lane, Task>>,
                     <<XmlDecl, PnmlRoot, TextElem(LoanLabel)>>}

PipelinePrompts == {<<>>, <<"p">>}
Questions == {<<>>, <<"q">>}

\* RAGService.retrieve(query) and RAGService.augment(state), as
\* ApplicationService calls them: the calls go to the RAG port
RAGService_retrieve(query, outcome) == RAGAdapter_retrieve(query, outcome)

RAGService_augment(prompt, context, formatOk) ==
    RAGAdapter_augment(prompt_template, prompt, TRUE, context, env.instruction, formatOk)

\* context = [dto for dto, _ in results]
ContextOf(results) == [i \in 1..Len(results) |-> results[i].doc]

NoPipelineResult ==
    [status |-> "error", query |-> None, storeCalls |-> 0, storeRaised |-> FALSE,
     augmented |-> FALSE, context |-> <<>>, result |-> None]

\* ApplicationService.process_rag_request(prompt, diagram)
ApplicationService_process_rag_request(prompt, diagram, outcome, formatOk) ==
    IF env.preprocessing = None
    THEN [NoPipelineResult EXCEPT !.status = "AttributeError"]
    ELSE
    LET q == IF Lower(env.preprocessing) = TrueText
             THEN extract_query(extractors, diagram)
             ELSE [status |-> "ok", result |-> diagram]
    IN
    IF q.status # "ok" THEN [NoPipelineResult EXCEPT !.status = q.status]
    ELSE
    LET r == RAGService_retrieve(q.result, outcome) IN
    IF r.status # "ok"
    THEN [NoPipelineResult EXCEPT !.query = q.result, !.storeCalls = r.storeCalls,
                                  !.storeRaised = TRUE]
    ELSE
    LET a == RAGService_augment(prompt, ContextOf(r.result), formatOk) IN
    [status |-> a.status, query |-> q.result, storeCalls |-> r.storeCalls,
     storeRaised |-> FALSE, augmented |-> TRUE, context |-> ContextOf(r.result),
     result |-> a.result]

\* DatabaseService.search_docs(question, k), as RAGService.enrich_prompt calls
\* it: the search of the store, a failure raised again
DatabaseService_search_docs(question, k, outcome) ==
    IF outcome.raised THEN [status |-> "error", result |-> <<>>]
    ELSE [status |-> "ok", result |-> FilterLoop(outcome.results, env.threshold)]

\* "\n\n".join(doc.text for doc in docs if doc.text.strip())
RECURSIVE NonBlankTexts(_)
NonBlankTexts(docs) ==
    IF docs = <<>> THEN <<>>
    ELSE IF Strip(Head(docs).text) # <<>>
         THEN <<Head(docs).text>> \o NonBlankTexts(Tail(docs))
         ELSE NonBlankTexts(Tail(docs))

QuestionLabel == <<"Q", "u", "e", "s", "t", "i", "o", "n", ":", " ">>

\* messages[0].content of prompt.format_messages(question=..., context=...),
\* the prompt being the one pulled from the hub
HubPrompt(question, context_text) ==
    QuestionLabel \o question \o NL \o ContextLabel \o context_text

\* RAGService.enrich_prompt(question, k): a failed search is logged and the
\* question returned, a failed formatting likewise
RAGService_enrich_prompt(question, k, outcome, formatOk) ==
    LET r == DatabaseService_search_docs(question, k, outcome) IN
    IF r.status # "ok"
    THEN [status |-> "ok", query |-> question, storeCalls |-> 1, storeRaised |-> TRUE,
          augmented |-> FALSE, context |-> <<>>, result |-> question]
    ELSE
    LET docs == ContextOf(r.result)
        context_text == JoinBlocks(NonBlankTexts(docs))
    IN [status |-> "ok", query |-> question, storeCalls |-> 1, storeRaised |-> FALSE,
        augmented |-> formatOk, context |-> docs,
        result |-> IF formatOk THEN HubPrompt(question, context_text) ELSE question]

PipelineUnchanged ==
    UNCHANGED <<collection, last, idem, writers, env, search, extractors, extraction,
                prompt_template>>

\* a RAG request through ApplicationService
ProcessRagRequest ==
    \E prompt \in PipelinePrompts, diagram \in PipelineDiagrams, formatOk \in BOOLEAN :
      \E outcome \in SearchOutcomes(collection, env.results_count) :
        LET r == ApplicationService_process_rag_request(prompt, diagram, outcome, formatOk) IN
        /\ rag' = [op |-> "process_rag_request", prompt |-> prompt, diagram |-> diagram,
                   status |-> r.status, query |-> r.query, storeCalls |-> r.storeCalls,
                   storeRaised |-> r.storeRaised, augmented |-> r.augmented,
                   context |-> r.context, result |-> r.result]
        /\ PipelineUnchanged

\* a prompt enrichment through RAGService
EnrichPrompt ==
    \E question \in Questions, formatOk \in BOOLEAN :
      \E outcome \in SearchOutcomes(collection, env.results_count) :
        LET r == RAGService_enrich_prompt(question, env.results_count, outcome, formatOk) IN
        /\ rag' = [op |-> "enrich_prompt", prompt |-> question, diagram |-> <<>>,
                   status |-> r.status, query |-> r.query, storeCalls |-> r.storeCalls,
                   storeRaised |-> r.storeRaised, augmented |-> r.augmented,
                   context |-> r.context, result |-> r.result]
        /\ PipelineUnchanged

\* the services as ServiceConfig wires them, over an index that holds documents
InitPipeline ==
    /\ collection = IndexDocs
    /\ env \in [threshold : {1, MaxDist}, results_count : {1},
                instruction : Instructions, preprocessing : PreprocessingValues]
    /\ prompt_template = ConfiguredTemplate
    /\ extractors = <<"BPMN", "PNML">>
    /\ rag = NoRag
    /\ last = NoCall
    /\ idem = NoIdem
    /\ writers = NoWriters
    /\ search = NoSearch
    /\ extraction = NoExtraction

NextPipeline == ProcessRagRequest \/ EnrichPrompt

SpecPipeline == InitPipeline /\ [][NextPipeline]_vars

\* C16 as claimed: when the store's similarity search fails, the failure
\* reaches the caller of the pipeline: nothing is augmented and no prompt,
\* enriched or original, is returned
C16_RetrievalFailurePropagates ==
    (rag.op \in {"process_rag_request", "enrich_prompt"} /\ rag.storeRaised) =>
        /\ rag.status = "error"
        /\ ~rag.augmented
        /\ rag.result = None

-----------------------------------------------------------------------------
(* Properties of process_pdf *)

\* C18: process_pdf touches the index only after load-and-convert succeeded:
\* a call with an empty file path or an empty prefix raises ValueError, and a
\* call whose load-and-convert raised (ValueError or a load or split error)
\* has called neither delete_by_prefix nor add_docs and has left every chunk
\* of the index, those of its prefix included, as it was
C18_LoadFailureLeavesIndex ==
    last.op = "process_pdf" =>
        /\ (last.arg.file_path = <<>> \/ last.arg.prefix = <<>>) =>
               last.status = "ValueError"
        /\ last.status \in {"ValueError", "FileNotFoundError"} =>
               /\ last.port = <<>>
               /\ last.added = {} /\ last.removed = {}

\* C18 witness: the load of a new version of "d" raised while the index held
\* the two chunks of the previous ingestion of "d"
C18_Witness ==
    /\ last.op = "process_pdf" /\ last.arg.prefix = SourceD
    /\ last.arg.v = 2
    /\ last.status = "FileNotFoundError"
    /\ PrefixGroup(collection, SourceD) = {ChunkDoc(SourceD, 1, 0), ChunkDoc(SourceD, 1, 1)}

-----------------------------------------------------------------------------
(* SpecBatch: ingestion of the PDF files of a directory *)

\* the last position of character c in s, 0 when there is none
LastIndexOf(s, c) ==
    LET at == {i \in 1..Len(s) : s[i] = c} IN
    IF at = {} THEN 0 ELSE CHOOSE i \in at : \A j \in at : j <= i

\* doc.id.rsplit('_', 1)[0]
RSplitPrefix(id) ==
    LET i == LastIndexOf(id, "_") IN
    IF i = 0 THEN id ELSE SubSeq(id, 1, i - 1)

\* os.path.splitext(os.path.basename(pdf_file))[0]
Stem(pdf_file) ==
    LET basename == SubSeq(pdf_file, LastIndexOf(pdf_file, "/") + 1, Len(pdf_file))
        dot == LastIndexOf(basename, ".")
    IN IF dot <= 1 THEN basename ELSE SubSeq(basename, 1, dot - 1)

\* a discovered file: its path, and what loading it gives: n chunks, or an error
BatchFiles(p) ==
    {[path |-> FileOf(p), n |-> n, loadOk |-> TRUE] : n \in 0..MaxChunks}
      \cup {[path |-> FileOf(p), n |-> 0, loadOk |-> FALSE]}

\* the directories: one or two PDF files, listed in the order of their names
Directories ==
    {<<f>> : f \in BatchFiles(SourceD) \cup BatchFiles(SourceD2)}
      \cup {<<f, g>> : f \in BatchFiles(SourceD), g \in BatchFiles(SourceD2)}

\* what the store does during one batch: nothing fails, or its call number
\* 'at' raises; the calls of the i-th file or prefix are the delete, 2i - 1,
\* and the insert, 2i, of which the first k documents are stored
NoFail == [at |-> 0, k |-> 0]
StoreFailures ==
    {NoFail} \cup {[at |-> 2 * i - 1, k |-> 0] : i \in 1..2}
             \cup {[at |-> 2 * i, k |-> k] : i \in 1..2, k \in 0..(MaxChunks - 1)}

\* PDFService.process_directory_to_documents: every file of the directory is
\* loaded and converted on its own; a failure is counted and collected
RECURSIVE PDFService_process_directory_to_documents(_)
PDFService_process_directory_to_documents(files) ==
    IF files = <<>>
    THEN [documents |-> <<>>, successful |-> 0, failed |-> 0, errors |-> <<>>]
    ELSE LET f == Head(files)
             l == PDFService_load_and_convert_pdf(f.path, Stem(f.path), 1, f.n, f.loadOk)
             r == PDFService_process_directory_to_documents(Tail(files))
         IN IF l.status = "ok"
            THEN [r EXCEPT !.documents = l.documents \o @, !.successful = @ + 1]
            ELSE [r EXCEPT !.failed = @ + 1,
                           !.errors = <<[file |-> f.path, error |-> l.status]>> \o @]

\* documents_by_prefix, in the order of the first document of each prefix
RECURSIVE GroupFrom(_, _)
GroupFrom(groups, documents) ==
    IF documents = <<>> THEN groups
    ELSE LET doc == Head(documents)
             prefix == RSplitPrefix(doc.id)
             at == {i \in 1..Len(groups) : groups[i].prefix = prefix}
         IN GroupFrom(IF at = {}
                      THEN Append(groups, [prefix |-> prefix, documents |-> <<doc>>])
                      ELSE LET i == CHOOSE j \in at : TRUE IN
                           [groups EXCEPT ![i].documents = Append(@, doc)],
                      Tail(documents))

documents_by_prefix(documents) == GroupFrom(<<>>, documents)

\* for prefix, documents in documents_by_prefix.items(): delete_by_prefix, then
\* add_docs; an exception of either leaves the loop and the method
RECURSIVE StoreLoop(_, _, _, _)
StoreLoop(coll, groups, i, fail) ==
    IF groups = <<>> THEN [coll |-> coll, status |-> "ok", port |-> <<>>]
    ELSE
    LET g == Head(groups)
        d == DatabaseService_delete_by_prefix(coll, g.prefix, fail.at # 2 * i - 1)
    IN
    IF d.status # "ok" THEN d
    ELSE
    LET a == DatabaseService_add_docs(d.coll, g.documents,
                 IF fail.at = 2 * i THEN fail.k ELSE Len(g.documents))
    IN
    IF a.status # "ok"
    THEN [coll |-> a.coll, status |-> a.status, port |-> d.port \o a.port]
    ELSE LET rest == StoreLoop(a.coll, Tail(groups), i + 1, fail) IN
         [coll |-> rest.coll, status |-> rest.status,
          port |-> d.port \o a.port \o rest.port]

NoBatchResult == [raised |-> TRUE]

\* the steps of a batch in the order they ran, each with the file it served:
\* step 1 of process_directory loads and converts the whole directory, the
\* loop over the prefixes then makes the calls recorded on the port
Step(step, file) == [step |-> step, file |-> file]

LoadSteps(files) == [i \in 1..Len(files) |-> Step("load", Stem(files[i].path))]

PortSteps(port) ==
    [i \in 1..Len(port) |->
        IF port[i].op = "delete_by_prefix" THEN Step("delete", port[i].arg)
        ELSE Step("insert", RSplitPrefix(port[i].arg[1].id))]

\* ApplicationService.process_directory(pdf_directory)
ApplicationService_process_directory(coll, files, fail) ==
    LET results == PDFService_process_directory_to_documents(files)
        groups == documents_by_prefix(results.documents)
        s == IF results.documents # <<>>
             THEN StoreLoop(coll, groups, 1, fail)
             ELSE [coll |-> coll, status |-> "ok", port |-> <<>>]
    IN [coll |-> s.coll, status |-> s.status, port |-> s.port,
        attempted |-> {Stem(files[i].path) : i \in 1..Len(files)},
        trace |-> LoadSteps(files) \o PortSteps(s.port),
        stored |-> {s.port[i].arg : i \in {j \in 1..Len(s.port) :
                                             s.port[j].op = "delete_by_prefix"}},
        result |-> IF s.status = "ok"
                   THEN [successful |-> results.successful, failed |-> results.failed,
                         errors |-> results.errors]
                   ELSE NoBatchResult]

\* PDFService.upload_and_index_pdf(pdf_path, prefix, collection): the old
\* chunks of the prefix are deleted, the PDF is loaded and split, the chunks
\* are stored with one collection.add (store_chunks first deletes the new
\* ids, which are gone by then, and only logs a failure of that delete); an
\* exception is logged and re-raised
PDFService_upload_and_index_pdf(coll, pdf_path, prefix, n, loadOk, deleteOk, addOk) ==
    IF ~deleteOk THEN [coll |-> coll, status |-> "error"]
    ELSE
    LET deleted == collection_delete(coll, IdsToDelete(collection_ids(coll), prefix)) IN
    IF ~loadOk THEN [coll |-> deleted, status |-> "FileNotFoundError"]
    ELSE IF ~addOk THEN [coll |-> deleted, status |-> "error"]
    ELSE [coll |-> AddLoop(deleted, convert_chunks_to_dtos(prefix, 1, n), n),
          status |-> "ok"]

\* PDFService.load_and_index_startup_pdfs(pdf_directory, collection): file by
\* file, each in its own try; the result counts the successes and the failures
RECURSIVE StartupLoop(_, _, _, _)
StartupLoop(coll, files, i, fail) ==
    IF files = <<>>
    THEN [coll |-> coll, successfully_indexed |-> 0, failed |-> 0, attempted |-> {},
          trace |-> <<>>]
    ELSE LET f == Head(files)
             filename == Stem(f.path)
             u == PDFService_upload_and_index_pdf(coll, f.path, filename, f.n, f.loadOk,
                                                  fail.at # 2 * i - 1, fail.at # 2 * i)
             r == StartupLoop(u.coll, Tail(files), i + 1, fail)
         IN [coll |-> r.coll,
             successfully_indexed |-> r.successfully_indexed
                                        + (IF u.status = "ok" THEN 1 ELSE 0),
             failed |-> r.failed + (IF u.status = "ok" THEN 0 ELSE 1),
             attempted |-> r.attempted \cup {filename},
             trace |-> <<Step("delete", filename)>>
                       \o (IF fail.at # 2 * i - 1
                           THEN <<Step("load", filename)>> ELSE <<>>)
                       \o (IF fail.at # 2 * i - 1 /\ f.loadOk
                           THEN <<Step("insert", filename)>> ELSE <<>>)
                       \o r.trace]

PDFService_load_and_index_startup_pdfs(coll, files, fail) ==
    LET r == StartupLoop(coll, files, 1, fail) IN
    [coll |-> r.coll, status |-> "ok", port |-> <<>>,
     attempted |-> r.attempted, stored |-> r.attempted, trace |-> r.trace,
     result |-> [successfully_indexed |-> r.successfully_indexed, failed |-> r.failed]]

\* the record of a completed batch call
BatchCompleted(op, files, fail, r) ==
    [op |-> op, arg |-> files, status |-> r.status, port |-> r.port,
     added |-> r.coll \ collection, removed |-> collection \ r.coll,
     storeRaised |-> fail.at # 0, attempted |-> r.attempted, stored |-> r.stored,
     trace |-> r.trace,
     result |-> r.result]

\* ApplicationService.process_directory over a directory
ProcessDirectory ==
    \E files \in Directories, fail \in StoreFailures :
        LET r == ApplicationService_process_directory(collection, files, fail) IN
        /\ collection' = r.coll
        /\ last' = BatchCompleted("process_directory", files, fail, r)
        /\ UNCHANGED idem
        /\ StoreUnchanged

\* PDFService.load_and_index_startup_pdfs over a directory
LoadAndIndexStartupPdfs ==
    \E files \in Directories, fail \in StoreFailures :
        LET r == PDFService_load_and_index_startup_pdfs(collection, files, fail) IN
        /\ collection' = r.coll
        /\ last' = BatchCompleted("load_and_index_startup_pdfs", files, fail, r)
        /\ UNCHANGED idem
        /\ StoreUnchanged

InitBatch == InitStore

NextBatch == ProcessDirectory \/ LoadAndIndexStartupPdfs

SpecBatch == InitBatch /\ [][NextBatch]_vars

\* the files of a batch whose load-and-convert succeeded with a chunk to store
Loadable(files) ==
    {Stem(files[i].path) : i \in {j \in 1..Len(files) : files[j].loadOk /\ files[j].n > 0}}

\* C17 as claimed: a batch ingestion returns normally whatever fails for one
\* file, in loading or in the store; every file is attempted, every loadable
\* file reaches the store, and the result holds the successful count, the
\* failed count and one error per failed file
C17_BatchIsolatesFailures ==
    last.op \in {"process_directory", "load_and_index_startup_pdfs"} =>
        /\ last.status = "ok"
        /\ last.attempted = {Stem(last.arg[i].path) : i \in 1..Len(last.arg)}
        /\ Loadable(last.arg) \subseteq last.stored
        /\ DOMAIN last.result = {"successful", "failed", "errors"}
        /\ last.result.successful + last.result.failed = Len(last.arg)
        /\ Len(last.result.errors) = last.result.failed

-----------------------------------------------------------------------------
(* SpecWindow: the process_pdf caller of source "d" of SpecIngest and a     *)
(* reader of the index that runs between any two of its calls to the store  *)

\* a reader lists the ids of the index, collection.get()["ids"], and keeps
\* the chunk ids p_<ordinal> of source p; recorded with the position of the
\* process_pdf caller of p at that moment
Read(p) ==
    /\ search' = [op |-> "get", prefix |-> p,
                  seen |-> collection_ids(PrefixGroup(collection, p)),
                  pc |-> writers[p].pc,
                  deleted |-> writers[p].ids,
                  pending |-> writers[p].documents]
    /\ UNCHANGED <<collection, writers, last, idem, env, extractors, extraction,
                   prompt_template, rag>>

InitWindow == InitStore

NextWindow ==
    \/ Load(SourceD) \/ DeleteGet(SourceD) \/ DeleteDo(SourceD) \/ AddOne(SourceD)
    \/ Read(SourceD)

SpecWindow == InitWindow /\ [][NextWindow]_vars

\* the read fell between the end of delete_by_prefix and the first insert of
\* add_docs of a process_pdf on the reader's prefix
InWindow(r) ==
    /\ r.op = "get" /\ r.pc = "adding"
    /\ Head(r.pending).id = ChunkId(r.prefix, 0)

\* C19: nothing keeps a reader out while process_pdf is between its
\* delete_by_prefix and its add_docs: a read in that window sees no chunk
\* of the prefix, whatever was indexed for it before
C19_VisibilityWindow == InWindow(search) => search.seen = {}

\* C19 witness: a read in the window of the re-ingestion of "d", whose
\* delete_by_prefix had removed the two chunks of the first ingestion, saw
\* no chunk of "d"
C19_Witness ==
    /\ InWindow(search) /\ search.prefix = SourceD
    /\ search.deleted = {ChunkId(SourceD, 0), ChunkId(SourceD, 1)}
    /\ search.seen = {}

-----------------------------------------------------------------------------
(* SpecRace: two callers of process_pdf for the same source "d", each with  *)
(* its own upload of the file; they interleave at every call to the store   *)

\* the callers; caller c uploads content version c of the file
Callers == {1, 2}
Other(c) == CHOOSE o \in Callers : o # c

IdleCaller ==
    [pc |-> "idle", loaded |-> <<>>, documents |-> <<>>, ids |-> {},
     status |-> "none", overlapped |-> FALSE]

\* the caller is between its first and its last call to the store
InStore(w) == w.pc \in {"got", "adding"}

\* process_pdf step 1 of caller c: load_and_convert_pdf(file_path, prefix)
RaceLoad(c) ==
    /\ writers[c].pc \in {"idle", "done"}
    /\ \E n \in 0..MaxChunks, loadOk \in BOOLEAN :
         LET l == PDFService_load_and_convert_pdf(FileOf(SourceD), SourceD, c, n, loadOk) IN
         writers' = [writers EXCEPT ![c] =
             [pc |-> IF l.status = "ok" THEN "loaded" ELSE "done",
              loaded |-> l.documents,
              documents |-> l.documents,
              ids |-> {},
              status |-> IF l.status = "ok" THEN "running" ELSE l.status,
              overlapped |-> FALSE]]
    /\ UNCHANGED collection
    /\ IngestUnchanged

\* process_pdf step 2, first half, of caller c: delete_by_prefix reads
\* collection.get() and filters the ids; this is the caller's first call to
\* the store, and it overlaps the other caller when that one is between its
\* own first and last call
RaceDeleteGet(c) ==
    /\ writers[c].pc = "loaded"
    /\ \E storeOk \in BOOLEAN :
         LET o == Other(c)
             meets == InStore(writers[o])
         IN
         writers' = [writers EXCEPT
             ![c] = IF PrefixIsEmpty(SourceD) \/ ~storeOk
                    THEN [@ EXCEPT !.pc = "done", !.documents = <<>>,
                                   !.status = "error"]
                    ELSE [@ EXCEPT !.pc = "got",
                                   !.ids = IdsToDelete(collection_ids(collection), SourceD),
                                   !.overlapped = meets],
             ![o] = IF storeOk /\ meets THEN [@ EXCEPT !.overlapped = TRUE] ELSE @]
    /\ UNCHANGED collection
    /\ IngestUnchanged

\* process_pdf step 2, second half, of caller c: collection.delete of the ids
\* read before, when there are any; then add_docs keeps the valid documents
RaceDeleteDo(c) ==
    /\ writers[c].pc = "got"
    /\ \E storeOk \in BOOLEAN :
         LET valid_docs == ValidDocs(writers[c].documents) IN
         IF writers[c].ids # {} /\ ~storeOk
         THEN /\ writers' = [writers EXCEPT ![c] =
                     [@ EXCEPT !.pc = "done", !.documents = <<>>, !.status = "error"]]
              /\ UNCHANGED collection
         ELSE /\ collection' = collection_delete(collection, writers[c].ids)
              /\ writers' = [writers EXCEPT ![c] =
                     IF valid_docs = <<>>
                     THEN [@ EXCEPT !.pc = "done", !.documents = <<>>, !.status = "ok"]
                     ELSE [@ EXCEPT !.pc = "adding", !.documents = valid_docs]]
    /\ IngestUnchanged

\* process_pdf step 3 of caller c: one turn of the loop of add_docs
RaceAddOne(c) ==
    /\ writers[c].pc = "adding"
    /\ \E storeOk \in BOOLEAN :
         IF ~storeOk
         THEN /\ writers' = [writers EXCEPT ![c] =
                     [@ EXCEPT !.pc = "done", !.documents = <<>>, !.status = "error"]]
              /\ UNCHANGED collection
         ELSE /\ collection' = collection_add(collection, Head(writers[c].documents))
              /\ writers' = [writers EXCEPT ![c] =
                     IF Len(writers[c].documents) = 1
                     THEN [@ EXCEPT !.pc = "done", !.documents = <<>>, !.status = "ok"]
                     ELSE [@ EXCEPT !.documents = Tail(writers[c].documents)]]
    /\ IngestUnchanged

InitRace ==
    /\ collection = {}
    /\ writers = [c \in Callers |-> IdleCaller]
    /\ last = NoCall
    /\ idem = NoIdem
    /\ env = NoEnv
    /\ search = NoSearch
    /\ extractors = <<>>
    /\ extraction = NoExtraction
    /\ prompt_template = None
    /\ rag = NoRag

NextRace ==
    \E c \in Callers : RaceLoad(c) \/ RaceDeleteGet(c) \/ RaceDeleteDo(c) \/ RaceAddOne(c)

SpecRace == InitRace /\ [][NextRace]_vars

\* both callers have returned normally from process_pdf
BothReturned == \A c \in Callers : writers[c].pc = "done" /\ writers[c].status = "ok"

\* the chunks of "d" in the index are exactly the chunks caller c loaded
HoldsChunksOf(c) == PrefixGroup(collection, SourceD) = Range(writers[c].loaded)

\* C20: nothing in the core orders two process_pdf calls for one prefix: when
\* both have returned normally, the index is sure to hold exactly the chunk
\* set of one of them only if their calls to the store did not overlap; the
\* witness is the overlap after which it holds the chunk set of neither
C20_OnlyDisjointCallsAreClean ==
    (BothReturned /\ \A c \in Callers : ~writers[c].overlapped) =>
        \E c \in Callers : HoldsChunksOf(c)

\* C20 witness: both callers returned normally and the chunks of "d" in the
\* index are a mix: a chunk of each upload, and the chunk set of neither
C20_Witness ==
    /\ BothReturned
    /\ \A c \in Callers : ~HoldsChunksOf(c)
    /\ \A c \in Callers : \E e \in PrefixGroup(collection, SourceD) : e.metadata.ver = c

-----------------------------------------------------------------------------
(* Properties of the batch ingestion (continued) *)

\* the steps of each file form one block of the trace: no step of another
\* file lies between two steps of the same file
FileByFile(trace) ==
    \A i, j, k \in 1..Len(trace) :
        (i < j /\ j < k /\ trace[i].file = trace[k].file) =>
            trace[j].file = trace[i].file

\* C21 as claimed: a batch ingestion runs file by file: every step of the
\* pipeline of a file (load and split, delete-by-prefix, insert) is over
\* before any step of the next file starts
C21_BatchIsSequentialPerFile ==
    last.op \in {"process_directory", "load_and_index_startup_pdfs"} =>
        FileByFile(last.trace)

-----------------------------------------------------------------------------
(* SpecCanProcess: can_process called on the registered extractors *)

\* extractor.can_process(diagram) on the extractor registered at position i
CanProcess ==
    \E i \in 1..Len(extractors), diagram \in Diagrams :
        LET c == can_process(extractors[i], diagram) IN
        /\ extraction' = [op |-> "can_process", diagram |-> diagram,
                          extractor |-> extractors[i],
                          status |-> IF c \in {"True", "False"} THEN "ok" ELSE c,
                          result |-> c]
        /\ QueryUnchanged

InitCanProcess == InitQuery

NextCanProcess == CanProcess

SpecCanProcess == InitCanProcess /\ [][NextCanProcess]_vars

\* the diagram holds the format marker of the extractor class
HasOwnMarker(cls, diagram) ==
    IF cls = "BPMN" THEN HasBpmnPrefix(diagram) \/ HasTag(diagram, "definitions")
    ELSE HasTag(diagram, "pnml")

\* C22 as claimed: can_process of a registered extractor never raises; it
\* answers False for None, for the empty string and for text without the XML
\* declaration, and True only for a diagram with the XML declaration and the
\* extractor's own format marker
C22_CanProcessNeverRaises ==
    extraction.op = "can_process" =>
        /\ extraction.status = "ok"
        /\ (extraction.diagram \in {NoDiagram, <<>>}
              \/ ~HasTag(extraction.diagram, "?xml")) => extraction.result = "False"
        /\ extraction.result = "True" =>
               /\ HasTag(extraction.diagram, "?xml")
               /\ HasOwnMarker(extraction.extractor, extraction.diagram)

-----------------------------------------------------------------------------
(* Properties of process_rag_request *)

\* the diagram-preprocessing flag reads 'true' in some letter case
PreprocessingOn == env.preprocessing # None /\ Lower(env.preprocessing) = TrueText

\* C23 as claimed: whatever the diagram-preprocessing flag is set to, unset
\* included, a process_rag_request that the store does not fail returns an
\* enriched prompt: the retrieval query is extract_query(diagram) when the
\* flag is 'true' and the diagram itself otherwise, and the augmentation
\* ran, after the retrieval, on the retrieved chunks
C23_PipelineForEveryFlag ==
    (rag.op = "process_rag_request" /\ ~rag.storeRaised) =>
        /\ rag.status = "ok"
        /\ rag.augmented
        /\ rag.storeCalls = 1
        /\ IF PreprocessingOn
           THEN rag.query = extract_query(extractors, rag.diagram).result
           ELSE rag.query = rag.diagram

-----------------------------------------------------------------------------
(* Frame of the prefix-scoped deletion *)

\* the source prefix a completed call worked on
PrefixOfCall(call) == IF call.op = "process_pdf" THEN call.arg.prefix ELSE call.arg

\* C24 as claimed: delete_by_prefix(p), and with it the re-ingestion of
\* source p, removes only chunks of source p, the entries with an id
\* p_<ordinal>; every chunk of another source stays as it is, also when the
\* name of that source starts with p
C24_DeleteFrame ==
    last.op \in {"delete_by_prefix", "process_pdf"} =>
        /\ \A e \in last.removed : e \in PrefixGroup(last.removed, PrefixOfCall(last))
        /\ \A e \in last.added : e \in PrefixGroup(last.added, PrefixOfCall(last))

-----------------------------------------------------------------------------
(* Properties of a failing insert *)

\* the first k chunks of the ingestion the call made
InitialPart(call, k) ==
    {ChunkDoc(call.arg.prefix, call.arg.v, i) : i \in 0..(k - 1)}

\* the call reached add_docs on the port and add_docs raised
InsertFailed(call) ==
    /\ call.op = "process_pdf" /\ call.status = "error"
    /\ Len(call.port) = 2 /\ call.port[2].op = "add_docs"

\* C25: add_docs inserts document by document in input order and rolls
\* nothing back: after a re-ingestion whose add_docs raised at document k,
\* the prefix holds the chunks 0..k-1 of the new chunk set, a strict initial
\* part of it, and no chunk of the old one
C25_FailedInsertLeavesInitialPart ==
    InsertFailed(last) =>
        \E k \in 0..(last.arg.n - 1) :
            PrefixGroup(collection, last.arg.prefix) = InitialPart(last, k)

\* C25 witness: the re-ingestion of "d" with version 2 deleted the two chunks
\* of version 1, inserted its first chunk and failed at the second
C25_Witness ==
    /\ InsertFailed(last) /\ last.arg.prefix = SourceD /\ last.arg.v = 2
    /\ last.removed = {ChunkDoc(SourceD, 1, 0), ChunkDoc(SourceD, 1, 1)}
    /\ PrefixGroup(collection, SourceD) = {ChunkDoc(SourceD, 2, 0)}

-----------------------------------------------------------------------------
(* SpecUpdate: update_doc and delete_doc on the index *)

\* ids and contents of the documents a caller updates
IdB == <<"b">>
UpdatedMeta == [source |-> <<"u">>, ver |-> 1]
UpdateDocuments ==
    [id : {IdA, IdB, ChunkId(SourceD, 0)}, text : {TextX, TextY},
     metadata : {NoMeta, UpdatedMeta}]

\* LangchainClient.delete_doc(id): collection.delete(ids=[id])
LangchainClient_delete_doc(coll, id, storeOk) ==
    IF ~storeOk THEN [coll |-> coll, status |-> "error", store |-> <<"delete">>]
    ELSE [coll |-> collection_delete(coll, {id}), status |-> "ok",
          store |-> <<"delete">>]

\* LangchainClient.update_doc(id, text, metadata): delete_doc(id), then
\* add_docs([text], [metadata or {}], [id]); an exception of either is logged
\* and re-raised (NoMeta stands for the empty metadata)
Mut_update_doc(coll, id, text, metadata, deleteOk, addOk) ==
    LET a == LangchainClient_add_docs(coll,
                 <<[id |-> id, text |-> text, metadata |-> metadata]>>,
                 IF addOk THEN 1 ELSE 0)
    IN [coll |-> a.coll, status |-> a.status, store |-> <<"add">>]

LangchainClient_update_doc(coll, id, text, metadata, deleteOk, addOk) ==
    LET d == LangchainClient_delete_doc(coll, id, deleteOk) IN
    IF d.status # "ok" THEN d
    ELSE LET a == LangchainClient_add_docs(d.coll,
                      <<[id |-> id, text |-> text, metadata |-> metadata]>>,
                      IF addOk THEN 1 ELSE 0)
         IN [coll |-> a.coll, status |-> a.status, store |-> d.store \o <<"add">>]

\* DatabaseAdapter.update_doc(document)
DatabaseAdapter_update_doc(coll, document, deleteOk, addOk) ==
    LangchainClient_update_doc(coll, document.id, document.text, document.metadata,
                               deleteOk, addOk)

\* DatabaseAdapter.delete_doc(id)
DatabaseAdapter_delete_doc(coll, id, storeOk) == LangchainClient_delete_doc(coll, id, storeOk)

\* DatabaseService.update_doc(document): the port's update_doc, an exception
\* logged and re-raised
DatabaseService_update_doc(coll, document, deleteOk, addOk) ==
    LET r == DatabaseAdapter_update_doc(coll, document, deleteOk, addOk) IN
    [coll |-> r.coll, status |-> r.status, store |-> r.store,
     port |-> <<[op |-> "update_doc", arg |-> document]>>]

\* DatabaseService.delete_doc(doc_id)
DatabaseService_delete_doc(coll, doc_id, storeOk) ==
    LET r == DatabaseAdapter_delete_doc(coll, doc_id, storeOk) IN
    [coll |-> r.coll, status |-> r.status, store |-> r.store,
     port |-> <<[op |-> "delete_doc", arg |-> doc_id]>>]

\* the record of a completed call with the calls it made on the collection
CompletedOnStore(op, arg, r) ==
    [op |-> op, arg |-> arg, status |-> r.status, port |-> r.port,
     added |-> r.coll \ collection, removed |-> collection \ r.coll,
     store |-> r.store]

\* PUT update: DatabaseService.update_doc(document)
UpdateDoc ==
    \E document \in UpdateDocuments, deleteOk \in BOOLEAN, addOk \in BOOLEAN :
        LET r == DatabaseService_update_doc(collection, document, deleteOk, addOk) IN
        /\ collection' = r.coll
        /\ last' = CompletedOnStore("update_doc", document, r)
        /\ UNCHANGED idem
        /\ StoreUnchanged

\* DELETE: DatabaseService.delete_doc(doc_id)
DeleteDoc ==
    \E doc_id \in {IdA, IdB, ChunkId(SourceD, 0)}, storeOk \in BOOLEAN :
        LET r == DatabaseService_delete_doc(collection, doc_id, storeOk) IN
        /\ collection' = r.coll
        /\ last' = CompletedOnStore("delete_doc", doc_id, r)
        /\ UNCHANGED idem
        /\ StoreUnchanged

InitUpdate == InitStore

NextUpdate == UpdateDoc \/ DeleteDoc

SpecUpdate == InitUpdate /\ [][NextUpdate]_vars

\* the entries of the index with the id
WithId(coll, id) == {e \in coll : e.id = id}

-----------------------------------------------------------------------------
(* SpecKeywords: optimize_keywords and the join of extract_query on keyword *)
(* lists                                                                    *)

MaxKeywords == 3   \* keywords in one list: 0..MaxKeywords

\* keywords: structural terms, a term that contains one, business terms
KwEnd == <<"e", "n", "d">>
KwAnd == <<"a", "n", "d">>
KwSend == <<"s", "e", "n", "d">>
KwLoan == <<"l", "o", "a", "n">>
KwPay == <<"p", "a", "y">>
Keywords == {KwEnd, KwAnd, KwSend, KwLoan, KwPay}
KeywordLists == UNION {[1..n -> Keywords] : n \in 0..MaxKeywords}

\* optimized_keywords, excluded_terms = self.optimize_keywords(search_keywords)
\* search_query = " ".join(optimized_keywords)
OptimizeKeywords ==
    \E keywords \in KeywordLists :
        LET r == optimize_keywords(keywords) IN
        /\ extraction' = [op |-> "optimize_keywords", keywords |-> keywords,
                          optimized |-> r.optimized, excluded |-> r.excluded,
                          query |-> Join(r.optimized)]
        /\ QueryUnchanged

InitKeywords == InitQuery

NextKeywords == OptimizeKeywords

SpecKeywords == InitKeywords /\ [][NextKeywords]_vars

\* the words a keyword is dropped for
IsStructuralWord(k) ==
    k \in {<<"a", "n", "d">>, <<"x", "o", "r">>, <<"s", "p", "l", "i", "t">>,
           <<"j", "o", "i", "n">>, <<"s", "t", "a", "r", "t">>, <<"e", "n", "d">>,
           <<"g", "a", "t", "e", "w", "a", "y">>,
           <<"t", "r", "a", "n", "s", "i", "t", "i", "o", "n">>,
           <<"p", "l", "a", "c", "e">>, <<"f", "o", "r", "k">>,
           <<"m", "e", "r", "g", "e">>}
IsKeptWord(k) == ~IsStructuralWord(k)

\* where word i of the list starts in the list joined with single spaces
RECURSIVE OffsetOf(_, _)
OffsetOf(words, i) ==
    IF i = 1 THEN 0 ELSE OffsetOf(words, i - 1) + Len(words[i - 1]) + 1

\* text is the words in order with one space between neighbours
SingleSpaced(text, words) ==
    /\ Len(text) = IF words = <<>> THEN 0
                   ELSE OffsetOf(words, Len(words)) + Len(words[Len(words)])
    /\ \A i \in 1..Len(words) :
           /\ SubSeq(text, OffsetOf(words, i) + 1, OffsetOf(words, i) + Len(words[i]))
                 = words[i]
           /\ i > 1 => text[OffsetOf(words, i)] = " "

\* C27: no term weighting: optimize_keywords only filters: optimized is the
\* input without the keywords equal to a structural term, in input order,
\* each as often as in the input; excluded is the removed keywords in input
\* order; the two lengths add up to the input's; and the query is optimized
\* joined with single spaces
C27_OptimizeIsPureFilter ==
    extraction.op = "optimize_keywords" =>
        /\ extraction.optimized = SelectSeq(extraction.keywords, IsKeptWord)
        /\ extraction.excluded = SelectSeq(extraction.keywords, IsStructuralWord)
        /\ Len(extraction.optimized) + Len(extraction.excluded) = Len(extraction.keywords)
        /\ SingleSpaced(extraction.query, extraction.optimized)

\* C27 witness: of "end", "send", "send" the structural term was excluded and
\* the term that contains it was kept, twice as in the input
C27_Witness ==
    /\ extraction.op = "optimize_keywords"
    /\ extraction.keywords = <<KwEnd, KwSend, KwSend>>
    /\ extraction.optimized = <<KwSend, KwSend>>
    /\ extraction.excluded = <<KwEnd>>
    /\ extraction.query = KwSend \o <<" ">> \o KwSend

-----------------------------------------------------------------------------
(* SpecTerms: the two filters of PnmlQueryExtractor on term lists           *)

MaxTerms == 2   \* terms in one list: 0..MaxTerms

\* inputs of filter_technical_terms
TermEmpty == <<>>
TermShort == <<"a">>
TermNumber == <<"1", "2">>
TermNoId == <<"n", "o", "I", "D">>
TermPlaceId == <<"p", "1">>
TermCoordinate == <<"x", "1", "0">>
TermOpId == <<"t", "4", "_", "o", "p", "_", "1">>
TermLoan == <<" ", "L", "o", "a", "n", " ">>
TermCheckIn == <<"c", "h", "e", "c", "k", "-", "i", "n">>
TermOrderId == <<"o", "r", "d", "e", "r", "_", "i", "d">>
TermMarkup == <<"<", "b">>
TechnicalInputs == {TermEmpty, TermShort, TermNumber, TermNoId, TermPlaceId, TermCoordinate, TermOpId, TermLoan, TermCheckIn, TermOrderId, TermMarkup}

\* inputs of filter_structural_terms
WordLoan == <<"l", "o", "a", "n">>
WordEnd == <<"e", "n", "d">>
WordSendInvoice == <<"s", "e", "n", "d", " ", "i", "n", "v", "o", "i", "c", "e">>
WordPlace == <<"p", "l", "a", "c", "e">>
WordPay == <<"p", "a", "y">>
StructuralInputs == {WordLoan, WordEnd, WordSendInvoice, WordPlace, WordPay}

TermLists(terms) == UNION {[1..n -> terms] : n \in 0..MaxTerms}

FilterTechnicalTerms ==
    \E text_matches \in TermLists(TechnicalInputs) :
        /\ extraction' = [op |-> "filter_technical_terms", terms |-> text_matches,
                          result |-> filter_technical_terms(text_matches)]
        /\ QueryUnchanged

FilterStructuralTerms ==
    \E keywords \in TermLists(StructuralInputs) :
        /\ extraction' = [op |-> "filter_structural_terms", terms |-> keywords,
                          result |-> filter_structural_terms(keywords)]
        /\ QueryUnchanged

InitTerms == InitQuery

NextTerms == FilterTechnicalTerms \/ FilterStructuralTerms

SpecTerms == InitTerms /\ [][NextTerms]_vars

\* letters and digits
IsLetters(s) == s # <<>> /\ \A i \in 1..Len(s) : s[i] \in LowerLetters
IsAlnum(s) == s # <<>> /\ \A i \in 1..Len(s) : s[i] \in LowerLetters \cup Digits

\* an identifier with an underscore: letters, "_", letters or digits
IsUnderscoreId(s) ==
    \E i \in 1..Len(s) :
        /\ s[i] = "_"
        /\ IsLetters(SubSeq(s, 1, i - 1))
        /\ IsAlnum(SubSeq(s, i + 1, Len(s)))

\* the terms C28 lists as technical, on the trimmed lower-cased term
IsTechnicalTerm(term) ==
    LET t == Lower(Strip(term)) IN
    \/ Len(t) <= 1
    \/ IsDigit(t)
    \/ t = <<"n", "o", "i", "d">>
    \/ IsLetterDigits(t)
    \/ IsUnderscoreId(t) \/ IsOpPattern(t)
    \/ (Len(t) >= 2 /\ t[1] \in {"x", "y"} /\ IsDigit(Tail(t)))

IsNotTechnicalTerm(term) == ~IsTechnicalTerm(term)

TrimmedLower(terms) == [i \in 1..Len(terms) |-> Lower(Strip(terms[i]))]

\* C28: filter_technical_terms returns, in input order, the trimmed
\* lower-cased form of exactly the input terms that are not technical (empty
\* or of length <= 1, numeric, noid, a letter followed by digits, an
\* identifier with an underscore, a coordinate)
C28_TechnicalFilterIsExact ==
    extraction.op = "filter_technical_terms" =>
        extraction.result = TrimmedLower(SelectSeq(extraction.terms, IsNotTechnicalTerm))

\* a keyword that is itself a word of the PNML structural list
IsListedWord(keyword) ==
    \E i \in 1..Len(pnml_structural_terms) : Lower(keyword) = pnml_structural_terms[i]

IsNotListedWord(keyword) == ~IsListedWord(keyword)

\* C29: filter_structural_terms returns, in input order, exactly the input
\* terms that are not themselves a word of the structural list; a term that
\* only contains a listed word ('send invoice' contains 'end') is kept
C29_StructuralFilterIsByWord ==
    extraction.op = "filter_structural_terms" =>
        extraction.result = SelectSeq(extraction.terms, IsNotListedWord)

-----------------------------------------------------------------------------
(* SpecBpmnTerms: BpmnQueryExtractor.extract_semantic_terms on diagrams     *)
(* with several participants, lanes and activities                          *)

MaxElements == 3   \* elements after the root: 0..MaxElements

SecondParticipant == Lexeme("bpmn:participant", CustomerName, None)

BpmnElements == {Participant, SecondParticipant, Lane, Task, StartEvent}

BpmnTermDiagrams ==
    {<<XmlDecl, BpmnDefinitions>> \o b :
        b \in UNION {[1..n -> BpmnElements] : n \in 0..MaxElements}}

ExtractSemanticTerms ==
    \E diagram \in BpmnTermDiagrams :
        /\ extraction' = [op |-> "extract_semantic_terms", diagram |-> diagram,
                          terms |-> extract_semantic_terms(diagram)]
        /\ QueryUnchanged

InitBpmnTerms == InitQuery

NextBpmnTerms == ExtractSemanticTerms

SpecBpmnTerms == InitBpmnTerms /\ [][NextBpmnTerms]_vars

\* the valid names of the elements with one of the tags, as they occur in the
\* diagram from its start to its end
NamesInDocumentOrder(diagram, tags) == ValidNames(FindAll(diagram, tags))

\* the terms that are names of the group, in the order of the returned list
GroupOf(terms, names) ==
    LET InGroup(t) == t \in Range(names) IN SelectSeq(terms, InGroup)

\* s without the repetitions of an element, first occurrences kept
RECURSIVE Once(_)
Once(s) ==
    IF s = <<>> THEN <<>>
    ELSE LET init == Once(SubSeq(s, 1, Len(s) - 1)) IN
         IF s[Len(s)] \in Range(init) THEN init ELSE Append(init, s[Len(s)])

\* C30: in the list extract_semantic_terms returns, the participant names
\* are in the order of the diagram, and so are the lane names and the
\* activity names; an activity name that occurs several times is listed once
C30_GroupsKeepDocumentOrder ==
    extraction.op = "extract_semantic_terms" =>
        LET participants == NamesInDocumentOrder(extraction.diagram,
                                {"bpmn:participant", "participant"})
            lanes == NamesInDocumentOrder(extraction.diagram, {"bpmn:lane", "lane"})
            activities == NamesInDocumentOrder(extraction.diagram,
                              {"bpmn:task", "bpmn:startEvent", "task", "startEvent"})
        IN /\ GroupOf(extraction.terms, participants) = participants
           /\ GroupOf(extraction.terms, lanes) = lanes
           /\ GroupOf(extraction.terms, activities) = Once(activities)

====
